---- MODULE Spec2Model ----
(***************************************************************************)
(* A model of the OrbitControls camera controller of git3d                 *)
(* (src/src/OrbitControls.ts, the class at lines 35-800).                  *)
(*                                                                         *)
(* Numbers.  The source computes in IEEE doubles; the model computes in    *)
(* fixed point:                                                            *)
(*   - angles are integers counting micro-radians, so that the source's    *)
(*     EPS = 0.000001 rad is 1 and Math.PI is 3141592;                     *)
(*   - lengths (radius, target, pan offset) are integers counting          *)
(*     thousandths of a world unit;                                        *)
(*   - the camera zoom factor is an integer counting thousandths;          *)
(*   - Scale, the damping factor and the zoom scale are exact rationals    *)
(*     <<numerator, denominator>>; a denominator of 0 is the double's      *)
(*     Infinity (numerator # 0) or NaN (numerator = 0);                    *)
(*   - the doubles Infinity and NaN of a length or an angle are the two    *)
(*     values Infinity and NaN below.                                      *)
(*                                                                         *)
(* Camera position.  update() reads the camera position only through      *)
(* offset = quat * (position - target) in spherical form (lines 224-232)   *)
(* and writes it back as target + quatInverse * offset (lines 289-294).    *)
(* The model keeps that offset, in the spherical form setFromVector3       *)
(* yields, as oc.camera.offset; the position is target + offset.           *)
(***************************************************************************)
EXTENDS Integers, Sequences, FiniteSets, TLC

VARIABLES
  oc,         \* the OrbitControls instance: its private fields, target, camera
  cfg,        \* the public configuration fields of the instance
  listeners,  \* the DOM: the <<target, event type>> pairs the instance is registered on
  capture,    \* the DOM: pointer ids the canvas holds a pointer capture for
  held,       \* the devices: pointer ids that are physically down
  devices,    \* the devices that exist: pointer ids the browser can report
  last,       \* what the last handler did: calls of update(), preventDefault, events
  budget,     \* number of further events the run may deliver
  peer,       \* a second OrbitControls instance, on a camera and a canvas of its own
  host        \* the host's listener for the instance's start and end notifications

vars == <<oc, cfg, listeners, capture, held, devices, last, budget, peer, host>>

----------------------------------------------------------------------------
(* Numbers *)

PI == 3141592
TWO_PI == 2 * PI
EPS == 1
Infinity == 1000000000
NaN == 0 - Infinity - 1

Max(a, b) == IF a >= b THEN a ELSE b
Min(a, b) == IF a <= b THEN a ELSE b
Abs(a) == IF a >= 0 THEN a ELSE 0 - a

\* Math.max / Math.min of doubles: NaN if either argument is NaN
MathMax(a, b) == IF a = NaN \/ b = NaN THEN NaN ELSE Max(a, b)
MathMin(a, b) == IF a = NaN \/ b = NaN THEN NaN ELSE Min(a, b)

NegInfinity == 0 - Infinity
IsInf(a) == a = Infinity \/ a = NegInfinity
IsFinite(a) == a # NaN /\ ~IsInf(a)

\* the quotient a / b of two finite numbers, b > 0, rounded towards zero
Div(a, b) == IF a >= 0 THEN a \div b ELSE 0 - ((0 - a) \div b)

\* a + b on doubles
Plus(a, b) ==
  IF a = NaN \/ b = NaN THEN NaN
  ELSE IF IsInf(a) /\ IsInf(b) THEN (IF a = b THEN a ELSE NaN)
  ELSE IF IsInf(a) THEN a
  ELSE IF IsInf(b) THEN b
  ELSE a + b

\* a * b on doubles
Times(a, b) ==
  IF a = NaN \/ b = NaN THEN NaN
  ELSE IF IsInf(a) \/ IsInf(b) THEN
         (IF a = 0 \/ b = 0 THEN NaN
          ELSE IF (a > 0) = (b > 0) THEN Infinity ELSE NegInfinity)
  ELSE a * b

\* x * q on doubles, for a ratio q = <<n, d>> of two distances or factors,
\* n >= 0 and d >= 0: q is Infinity when d = 0 < n and NaN when n = d = 0
TimesRat(x, q) ==
  IF x = NaN \/ (q[1] = 0 /\ q[2] = 0) THEN NaN
  ELSE IF q[2] = 0 THEN (IF x = 0 THEN NaN ELSE IF x > 0 THEN Infinity ELSE NegInfinity)
  ELSE IF q[1] = 0 THEN (IF IsInf(x) THEN NaN ELSE 0)
  ELSE IF IsInf(x) THEN x
  ELSE Div(x * q[1], q[2])

\* the product and the reciprocal of two such ratios
TimesQ(p, q) == <<p[1] * q[1], p[2] * q[2]>>
Inverse(q) == <<q[2], q[1]>>

RECURSIVE SqrtFrom(_, _)
SqrtFrom(n, r) == IF (r + 1) * (r + 1) > n THEN r ELSE SqrtFrom(n, r + 1)
\* Math.sqrt on the squares the model meets
Sqrt(n) == SqrtFrom(n, 0)

V2(x, y) == [x |-> x, y |-> y]
V3(x, y, z) == [x |-> x, y |-> y, z |-> z]
AddV3(a, b) == V3(Plus(a.x, b.x), Plus(a.y, b.y), Plus(a.z, b.z))
ScaleV3(a, q) == V3(TimesRat(a.x, q), TimesRat(a.y, q), TimesRat(a.z, q))
Zero3 == V3(0, 0, 0)

----------------------------------------------------------------------------
(* Spherical coordinates (three.js Spherical, Vector3) as update() uses them *)

\* an angle brought into (-PI, PI], the range of Math.atan2
Wrap(t) == ((t + PI - 1) % TWO_PI) - PI + 1

Sph(radius, phi, theta) == [radius |-> radius, phi |-> phi, theta |-> theta]

\* Vector3.setFromSpherical followed by the read-back of Spherical.setFromVector3:
\* the vector of a spherical position, held in the form setFromVector3 returns.
\* A zero vector reads back as (0, 0, 0); an infinite radius gives components
\* that are +-Infinity, or NaN where the trigonometric factor is exactly 0
\* (sin theta at theta = 0); a NaN anywhere gives NaN everywhere.
SetFromSpherical(s) ==
  IF s.radius = NaN \/ s.phi = NaN \/ s.theta = NaN THEN Sph(NaN, NaN, NaN)
  ELSE IF s.radius = 0 THEN Sph(0, 0, 0)
  ELSE IF s.radius = Infinity THEN
         LET t == Wrap(s.theta) IN
         IF t = 0 THEN Sph(NaN, NaN, NaN)
         ELSE Sph(Infinity, NaN,
                  IF t > 0 THEN (IF 2 * t < PI THEN PI \div 4 ELSE 3 * (PI \div 4))
                  ELSE (IF 0 - 2 * t < PI THEN 0 - (PI \div 4) ELSE 0 - 3 * (PI \div 4)))
  ELSE IF s.phi <= 0 \/ s.phi >= PI THEN Sph(s.radius, Max(0, Min(PI, s.phi)), 0)
  ELSE Sph(s.radius, s.phi, Wrap(s.theta))

\* Spherical.setFromVector3 of a vector held in that form
SetFromVector3(v) == Sph(v.radius, v.phi, v.theta)

\* Spherical.makeSafe: phi = max(EPS, min(PI - EPS, phi))
MakeSafe(phi) == MathMax(EPS, MathMin(PI - EPS, phi))

\* faulty variant of RestrictPhi: the upper polar limit is not applied
RestrictPhiNoMax(phi) == MathMax(cfg.minPolarAngle, phi)

\* lines 266-270
RestrictPhi(phi) == MathMax(cfg.minPolarAngle, MathMin(cfg.maxPolarAngle, phi))

\* lines 243-264
NormalizeBound(a) == IF a < 0 - PI THEN a + TWO_PI ELSE IF a > PI THEN a - TWO_PI ELSE a

\* faulty variant of RestrictTheta: the upper azimuth limit is not applied
RestrictThetaNoMax(theta) ==
  IF IsFinite(cfg.minAzimuthAngle) /\ IsFinite(cfg.maxAzimuthAngle)
  THEN MathMax(NormalizeBound(cfg.minAzimuthAngle), theta)
  ELSE theta

RestrictTheta(theta) ==
  IF IsFinite(cfg.minAzimuthAngle) /\ IsFinite(cfg.maxAzimuthAngle) THEN
    LET min == NormalizeBound(cfg.minAzimuthAngle)
        max == NormalizeBound(cfg.maxAzimuthAngle)
    IN IF min <= max THEN MathMax(min, MathMin(max, theta))
       ELSE IF theta = NaN THEN MathMin(max, theta)
       ELSE IF 2 * theta > min + max THEN MathMax(min, theta)
       ELSE MathMin(max, theta)
  ELSE theta

\* line 274: radius *= scale
TimesScale(radius, scale) == TimesRat(radius, scale)

\* faulty variant of RestrictRadius: the lower distance limit is not applied
RestrictRadiusNoMin(radius) == MathMin(cfg.maxDistance, radius)

\* lines 277-280
RestrictRadius(radius) == MathMax(cfg.minDistance, MathMin(cfg.maxDistance, radius))

\* line 237
DampFactor == IF cfg.enableDamping THEN cfg.dampingFactor ELSE <<1, 1>>
\* faulty variant of DampRest: the pending delta is scaled by dampingFactor
DampRestIsFactor == cfg.dampingFactor

\* 1 - dampingFactor
DampRest == <<cfg.dampingFactor[2] - cfg.dampingFactor[1], cfg.dampingFactor[2]>>

\* faulty variant of AutoRotationAngle: a turn in 60 frames
AutoRotationAngleOf60 == Div(TWO_PI * cfg.autoRotateSpeed, 60)

\* lines 234-235: the step of one frame of auto-rotation
AutoRotationAngle == Div(TWO_PI * cfg.autoRotateSpeed, 3600)

----------------------------------------------------------------------------
(* update(), lines 223-328 *)

Sq(a) == a * a

\* Vector3.distanceToSquared(a, b) > EPS for two camera positions, each held as
\* [t |-> target, o |-> offset]: the squared distance is taken along the target
\* displacement, the radius and the two arcs; EPS = 1e-6 square units is one
\* square thousandth.  A comparison with NaN is false.
MovedBeyondEps(a, b) ==
  LET nums(p) == {p.t.x, p.t.y, p.t.z, p.o.radius, p.o.phi, p.o.theta} IN
  IF NaN \in nums(a) \cup nums(b) THEN FALSE
  ELSE IF \E n \in nums(a) \cup nums(b) : IsInf(n) THEN a # b
  ELSE LET r == Max(a.o.radius, b.o.radius)
           arc(d) == Div(r, 1000) * Div(Abs(d), 1000)
           ds == <<a.t.x - b.t.x, a.t.y - b.t.y, a.t.z - b.t.z, a.o.radius - b.o.radius,
                   arc(a.o.phi - b.o.phi), arc(Wrap(a.o.theta - b.o.theta))>>
       IN \/ \E i \in 1..6 : Abs(ds[i]) > 1
          \/ Sq(ds[1]) + Sq(ds[2]) + Sq(ds[3]) + Sq(ds[4]) + Sq(ds[5]) + Sq(ds[6]) > 1

\* 8 * (1 - lastQuaternion.dot(quaternion)) > EPS, by the small-angle reading of
\* the source's comment: the squared angle between the two orientations exceeds
\* EPS, i.e. the angle exceeds 1000 micro-radians.  An orientation is held as
\* the direction [phi, theta] the camera looks along.
TurnedBeyondEps(a, b) ==
  IF a.phi = NaN \/ b.phi = NaN \/ a.theta = NaN \/ b.theta = NaN THEN FALSE
  ELSE Abs(a.phi - b.phi) > 1000 \/ Abs(Wrap(a.theta - b.theta)) > 1000

\* Object3D.lookAt(target): the orientation of a camera at `offset` from the target
LookAt(offset) == [phi |-> offset.phi, theta |-> offset.theta]

Position(o) == [t |-> o.target, o |-> o.camera.offset]

\* faulty variant of Update: Scale is not set back to 1
UpdateKeepsScale(o) ==
  LET s0 == SetFromVector3(o.camera.offset)
      dTheta == IF cfg.autoRotate /\ o.state = "NONE"
                THEN o.sphericalDelta.theta - AutoRotationAngle
                ELSE o.sphericalDelta.theta
      dPhi == o.sphericalDelta.phi
      theta == RestrictTheta(Plus(s0.theta, TimesRat(dTheta, DampFactor)))
      phi == MakeSafe(RestrictPhi(Plus(s0.phi, TimesRat(dPhi, DampFactor))))
      radius == RestrictRadius(TimesScale(s0.radius, o.scale))
      spherical == Sph(radius, phi, theta)
      target == IF cfg.enableDamping
                THEN AddV3(o.target, ScaleV3(o.panOffset, cfg.dampingFactor))
                ELSE AddV3(o.target, o.panOffset)
      offset == SetFromSpherical(spherical)
      quaternion == LookAt(offset)
      o1 == [o EXCEPT
               !.spherical = spherical,
               !.target = target,
               !.camera.offset = offset,
               !.camera.quaternion = quaternion,
               !.sphericalDelta =
                  IF cfg.enableDamping
                  THEN [theta |-> TimesRat(dTheta, DampRest), phi |-> TimesRat(dPhi, DampRest)]
                  ELSE [theta |-> 0, phi |-> 0],
               !.panOffset = IF cfg.enableDamping THEN ScaleV3(o.panOffset, DampRest) ELSE Zero3]
      changed == \/ o.zoomChanged
                 \/ MovedBeyondEps(o.lastPosition, Position(o1))
                 \/ TurnedBeyondEps(o.lastQuaternion, quaternion)
  IN [o |-> IF changed
            THEN [o1 EXCEPT !.lastPosition = Position(o1),
                            !.lastQuaternion = quaternion,
                            !.zoomChanged = FALSE]
            ELSE o1,
      changed |-> changed]

\* faulty variant of Update: the spherical values of the previous update()
\* are taken instead of the camera's position
UpdateFromCached(o) ==
  LET s0 == o.spherical
      dTheta == IF cfg.autoRotate /\ o.state = "NONE"
                THEN o.sphericalDelta.theta - AutoRotationAngle
                ELSE o.sphericalDelta.theta
      dPhi == o.sphericalDelta.phi
      theta == RestrictTheta(Plus(s0.theta, TimesRat(dTheta, DampFactor)))
      phi == MakeSafe(RestrictPhi(Plus(s0.phi, TimesRat(dPhi, DampFactor))))
      radius == RestrictRadius(TimesScale(s0.radius, o.scale))
      spherical == Sph(radius, phi, theta)
      target == IF cfg.enableDamping
                THEN AddV3(o.target, ScaleV3(o.panOffset, cfg.dampingFactor))
                ELSE AddV3(o.target, o.panOffset)
      offset == SetFromSpherical(spherical)
      quaternion == LookAt(offset)
      o1 == [o EXCEPT
               !.spherical = spherical,
               !.target = target,
               !.camera.offset = offset,
               !.camera.quaternion = quaternion,
               !.sphericalDelta =
                  IF cfg.enableDamping
                  THEN [theta |-> TimesRat(dTheta, DampRest), phi |-> TimesRat(dPhi, DampRest)]
                  ELSE [theta |-> 0, phi |-> 0],
               !.panOffset = IF cfg.enableDamping THEN ScaleV3(o.panOffset, DampRest) ELSE Zero3,
               !.scale = <<1, 1>>]
      changed == \/ o.zoomChanged
                 \/ MovedBeyondEps(o.lastPosition, Position(o1))
                 \/ TurnedBeyondEps(o.lastQuaternion, quaternion)
  IN [o |-> IF changed
            THEN [o1 EXCEPT !.lastPosition = Position(o1),
                            !.lastQuaternion = quaternion,
                            !.zoomChanged = FALSE]
            ELSE o1,
      changed |-> changed]

\* faulty variant of Update: Target takes the whole pending pan also with
\* damping, and the decayed rest stays pending
UpdateFoldsWholePan(o) ==
  LET s0 == SetFromVector3(o.camera.offset)
      dTheta == IF cfg.autoRotate /\ o.state = "NONE"
                THEN o.sphericalDelta.theta - AutoRotationAngle
                ELSE o.sphericalDelta.theta
      dPhi == o.sphericalDelta.phi
      theta == RestrictTheta(Plus(s0.theta, TimesRat(dTheta, DampFactor)))
      phi == MakeSafe(RestrictPhi(Plus(s0.phi, TimesRat(dPhi, DampFactor))))
      radius == RestrictRadius(TimesScale(s0.radius, o.scale))
      spherical == Sph(radius, phi, theta)
      target == AddV3(o.target, o.panOffset)
      offset == SetFromSpherical(spherical)
      quaternion == LookAt(offset)
      o1 == [o EXCEPT
               !.spherical = spherical,
               !.target = target,
               !.camera.offset = offset,
               !.camera.quaternion = quaternion,
               !.sphericalDelta =
                  IF cfg.enableDamping
                  THEN [theta |-> TimesRat(dTheta, DampRest), phi |-> TimesRat(dPhi, DampRest)]
                  ELSE [theta |-> 0, phi |-> 0],
               !.panOffset = IF cfg.enableDamping THEN ScaleV3(o.panOffset, DampRest) ELSE Zero3,
               !.scale = <<1, 1>>]
      changed == \/ o.zoomChanged
                 \/ MovedBeyondEps(o.lastPosition, Position(o1))
                 \/ TurnedBeyondEps(o.lastQuaternion, quaternion)
  IN [o |-> IF changed
            THEN [o1 EXCEPT !.lastPosition = Position(o1),
                            !.lastQuaternion = quaternion,
                            !.zoomChanged = FALSE]
            ELSE o1,
      changed |-> changed]

\* update(): the state of the instance after the call, and the value returned
Update(o) ==
  LET s0 == SetFromVector3(o.camera.offset)
      dTheta == IF cfg.autoRotate /\ o.state = "NONE"
                THEN o.sphericalDelta.theta - AutoRotationAngle
                ELSE o.sphericalDelta.theta
      dPhi == o.sphericalDelta.phi
      theta == RestrictTheta(Plus(s0.theta, TimesRat(dTheta, DampFactor)))
      phi == MakeSafe(RestrictPhi(Plus(s0.phi, TimesRat(dPhi, DampFactor))))
      radius == RestrictRadius(TimesScale(s0.radius, o.scale))
      spherical == Sph(radius, phi, theta)
      target == IF cfg.enableDamping
                THEN AddV3(o.target, ScaleV3(o.panOffset, cfg.dampingFactor))
                ELSE AddV3(o.target, o.panOffset)
      offset == SetFromSpherical(spherical)
      quaternion == LookAt(offset)
      o1 == [o EXCEPT
               !.spherical = spherical,
               !.target = target,
               !.camera.offset = offset,
               !.camera.quaternion = quaternion,
               !.sphericalDelta =
                  IF cfg.enableDamping
                  THEN [theta |-> TimesRat(dTheta, DampRest), phi |-> TimesRat(dPhi, DampRest)]
                  ELSE [theta |-> 0, phi |-> 0],
               !.panOffset = IF cfg.enableDamping THEN ScaleV3(o.panOffset, DampRest) ELSE Zero3,
               !.scale = <<1, 1>>]
      changed == \/ o.zoomChanged
                 \/ MovedBeyondEps(o.lastPosition, Position(o1))
                 \/ TurnedBeyondEps(o.lastQuaternion, quaternion)
  IN [o |-> IF changed
            THEN [o1 EXCEPT !.lastPosition = Position(o1),
                            !.lastQuaternion = quaternion,
                            !.zoomChanged = FALSE]
            ELSE o1,
      changed |-> changed]

----------------------------------------------------------------------------
(* The input surface and the inputs the model draws from *)

\* canvas.clientWidth and canvas.clientHeight, in pixels
ClientWidth == 32
ClientHeight == 16

\* the screen positions a pointer event can carry (even, so that the midpoint
\* 0.5 * (a + b) of two of them is a whole pixel)
Points == {V2(0, 0), V2(6, 0), V2(0, 8)}

\* pointer id 1 is the mouse, the others are touch contacts
MouseIds == {1}
TouchIds == {2, 3, 4}
PointerType(id) == IF id \in MouseIds THEN "mouse" ELSE "touch"

\* the targets listenToKeyEvents can be given
KeyTargets == {"window", "document"}

\* a handler in progress: the instance, the DOM registrations, and its trace
Frame(o, l, c, op) ==
  [o |-> o, l |-> l, c |-> c,
   t |-> [op |-> op, updates |-> 0, threw |-> FALSE, prevented |-> FALSE,
          events |-> <<>>, changed |-> FALSE,
          \* the ids canvas.releasePointerCapture was called with
          released |-> <<>>]]

DispatchEvent(f, type) == [f EXCEPT !.t.events = Append(@, type)]
PreventDefault(f) == [f EXCEPT !.t.prevented = TRUE]
\* a TypeError leaves the handler at the point it is raised
Throw(f) == [f EXCEPT !.t.threw = TRUE]

\* this.update() called from a handler
CallUpdate(f) ==
  LET u == Update(f.o) IN
  [f EXCEPT !.o = u.o,
            !.t.updates = @ + 1,
            !.t.changed = u.changed,
            !.t.events = IF u.changed THEN Append(@, "change") ELSE @]

----------------------------------------------------------------------------
(* pan, dolly and the handle* methods, lines 346-561 *)

RECURSIVE PowQ(_, _)
PowQ(q, n) == IF n = 0 THEN <<1, 1>> ELSE TimesQ(q, PowQ(q, n - 1))

\* lines 346-348: Math.pow(0.95, zoomSpeed)
GetZoomScale == PowQ(<<19, 20>>, cfg.zoomSpeed)

\* lines 351-355: panOffset += -distance * (X column of the camera matrix)
PanLeft(o, distance) ==
  LET m == o.camera.matrixX
      d == IF distance = NaN THEN NaN ELSE 0 - distance
  IN [o EXCEPT !.panOffset = AddV3(@, V3(Times(m.x, d), Times(m.y, d), Times(m.z, d)))]

\* Vector3.crossVectors
Cross(a, b) == V3(a.y * b.z - a.z * b.y, a.z * b.x - a.x * b.z, a.x * b.y - a.y * b.x)

\* lines 358-366
PanUp(o, distance) ==
  LET m == IF cfg.screenSpacePanning THEN o.camera.matrixY
           ELSE Cross(o.camera.up, o.camera.matrixX)
  IN [o EXCEPT !.panOffset = AddV3(@, V3(Times(m.x, distance), Times(m.y, distance),
                                         Times(m.z, distance)))]

\* lines 370-392
Pan(o, deltaX, deltaY) ==
  LET radius == o.camera.offset.radius
      \* perspective: 2 * |offset| * tan(fov / 2) / clientHeight
      perDist(delta) ==
        IF IsFinite(radius)
        THEN TimesRat(Div(2 * delta * radius, ClientHeight), o.camera.tanHalfFov)
        ELSE Times(delta, radius)
      \* orthographic: delta * (right - left) / zoom / clientWidth
      ortDist(delta, extent, pixels) ==
        IF o.camera.zoom = NaN THEN NaN
        ELSE IF o.camera.zoom = Infinity THEN 0
        ELSE TimesRat(delta * extent, <<1000, o.camera.zoom * pixels>>)
      leftDist == IF o.camera.isPerspective THEN perDist(deltaX)
                  ELSE ortDist(deltaX, o.camera.frustumWidth, ClientWidth)
      upDist == IF o.camera.isPerspective THEN perDist(deltaY)
                ELSE ortDist(deltaY, o.camera.frustumHeight, ClientHeight)
  IN PanUp(PanLeft(o, leftDist), upDist)

\* lines 399-402: max(minZoom, min(maxZoom, zoom / dollyFactor))
ZoomBy(zoom, dollyFactor) ==
  LET z == IF zoom = Infinity /\ dollyFactor[2] = 0 THEN NaN
           ELSE TimesRat(zoom, Inverse(dollyFactor))
  IN MathMax(cfg.minZoom, MathMin(cfg.maxZoom, z))

\* faulty variant of Dolly: the orthographic zoom is set without flagging it
DollyUnflagged(o, dollyScale, dollyOut) ==
  LET dollyFactor == IF dollyOut THEN Inverse(dollyScale) ELSE dollyScale IN
  IF o.camera.isPerspective
  THEN [o EXCEPT !.scale = TimesQ(@, dollyFactor)]
  ELSE [o EXCEPT !.camera.zoom = ZoomBy(@, dollyFactor),
                 !.camera.projectionZoom = ZoomBy(o.camera.zoom, dollyFactor)]

\* lines 394-406
Dolly(o, dollyScale, dollyOut) ==
  LET dollyFactor == IF dollyOut THEN Inverse(dollyScale) ELSE dollyScale IN
  IF o.camera.isPerspective
  THEN [o EXCEPT !.scale = TimesQ(@, dollyFactor)]
  ELSE [o EXCEPT !.camera.zoom = ZoomBy(@, dollyFactor),
                 !.camera.projectionZoom = ZoomBy(o.camera.zoom, dollyFactor),
                 !.zoomChanged = TRUE]

\* faulty variant of Rotate: the deltas are divided by the canvas width
RotateByWidth(o, end) ==
  LET dx == (end.x - o.rotateStart.x) * cfg.rotateSpeed
      dy == (end.y - o.rotateStart.y) * cfg.rotateSpeed
  IN [o EXCEPT !.sphericalDelta.theta = @ - Div(TWO_PI * dx, ClientWidth),
               !.sphericalDelta.phi = @ - Div(TWO_PI * dy, ClientWidth),
               !.rotateStart = end]

\* lines 415-420 and 518-523: the rotation a drag from rotateStart to `end` asks for
Rotate(o, end) ==
  LET dx == (end.x - o.rotateStart.x) * cfg.rotateSpeed
      dy == (end.y - o.rotateStart.y) * cfg.rotateSpeed
  IN [o EXCEPT !.sphericalDelta.theta = @ - Div(TWO_PI * dx, ClientHeight),
               !.sphericalDelta.phi = @ - Div(TWO_PI * dy, ClientHeight),
               !.rotateStart = end]

\* lines 412-423
HandleMouseMoveRotate(o, x, y) == Rotate(o, V2(x, y))

\* lines 425-434
HandleMouseMoveDolly(o, x, y) ==
  LET dy == y - o.dollyStart.y
      o1 == IF dy # 0 THEN Dolly(o, GetZoomScale, dy > 0) ELSE o
  IN [o1 EXCEPT !.dollyStart = V2(x, y)]

\* lines 439-446 and 540-546: the pan a drag from panStart to `end` asks for
PanTo(o, end) ==
  LET dx == (end.x - o.panStart.x) * cfg.panSpeed
      dy == (end.y - o.panStart.y) * cfg.panSpeed
  IN [Pan(o, dx, dy) EXCEPT !.panStart = end]

\* lines 436-446
HandleMouseMovePan(o, x, y) == PanTo(o, V2(x, y))

----------------------------------------------------------------------------
(* Pointer tracking, lines 774-799 *)

\* lines 774-783
RemovePointer(o, pointerId) ==
  LET ps == o.pointers
      hits == {i \in 1..Len(ps) : ps[i].pointerId = pointerId}
      first == CHOOSE i \in hits : \A j \in hits : i <= j
      left == DOMAIN o.pointerPositions \ {pointerId}
  IN [o EXCEPT
        !.pointerPositions = [id \in left |-> o.pointerPositions[id]],
        !.pointers = IF hits = {} THEN ps
                     ELSE [i \in 1..(Len(ps) - 1) |-> IF i < first THEN ps[i] ELSE ps[i + 1]]]

\* lines 785-794
TrackPointer(o, pointerId, x, y) ==
  [o EXCEPT !.pointerPositions =
     [id \in DOMAIN o.pointerPositions \cup {pointerId} |->
        IF id = pointerId THEN V2(x, y) ELSE o.pointerPositions[id]]]

\* lines 796-799 and the `!` of its callers: the property reads that raise a
\* TypeError are pointers[0].pointerId with no pointer, pointers[1].pointerId
\* with one pointer, and position.x with no tracked position
SecondPointerIndex(o, pointerId) ==
  IF pointerId = o.pointers[1].pointerId THEN 2 ELSE 1

SecondPointerThrows(o, pointerId) ==
  \/ Len(o.pointers) = 0
  \/ SecondPointerIndex(o, pointerId) > Len(o.pointers)
  \/ o.pointers[SecondPointerIndex(o, pointerId)].pointerId \notin DOMAIN o.pointerPositions

GetSecondPointerPosition(o, pointerId) ==
  o.pointerPositions[o.pointers[SecondPointerIndex(o, pointerId)].pointerId]

----------------------------------------------------------------------------
(* Touch handlers, lines 487-561.  A handle* operator that can raise takes    *)
(* and returns a handler frame.                                              *)

\* 0.5 * (a + b)
Half(a) == Div(a, 2)

\* faulty variant of TouchStartPoint: always the first pointer, never the midpoint
TouchStartPointFirst(o) == V2(o.pointers[1].pageX, o.pointers[1].pageY)

\* lines 487-495; more than one pointer reads pointers[0] and pointers[1]
TouchStartPoint(o) ==
  IF Len(o.pointers) = 1
  THEN V2(o.pointers[1].pageX, o.pointers[1].pageY)
  ELSE V2(Half(o.pointers[1].pageX + o.pointers[2].pageX),
          Half(o.pointers[1].pageY + o.pointers[2].pageY))

\* Math.sqrt(dx * dx + dy * dy)
Distance(a, b) == Sqrt(Sq(a.x - b.x) + Sq(a.y - b.y))

\* lines 497-504
HandleTouchStartDolly(o) ==
  [o EXCEPT !.dollyStart =
     V2(0, Distance(V2(o.pointers[1].pageX, o.pointers[1].pageY),
                    V2(o.pointers[2].pageX, o.pointers[2].pageY)))]

\* lines 507-516 and 529-538: the point a touch move is measured at
TouchMovePoint(o, pointerId, x, y) ==
  IF Len(o.pointers) = 1 THEN V2(x, y)
  ELSE LET position == GetSecondPointerPosition(o, pointerId)
       IN V2(Half(x + position.x), Half(y + position.y))

TouchMovePointThrows(o, pointerId) ==
  Len(o.pointers) # 1 /\ SecondPointerThrows(o, pointerId)

\* lines 506-526
HandleTouchMoveRotate(f, pointerId, x, y) ==
  IF f.t.threw THEN f
  ELSE IF TouchMovePointThrows(f.o, pointerId) THEN Throw(f)
  ELSE [f EXCEPT !.o = Rotate(f.o, TouchMovePoint(f.o, pointerId, x, y))]

\* lines 528-547
HandleTouchMovePan(f, pointerId, x, y) ==
  IF f.t.threw THEN f
  ELSE IF TouchMovePointThrows(f.o, pointerId) THEN Throw(f)
  ELSE [f EXCEPT !.o = PanTo(f.o, TouchMovePoint(f.o, pointerId, x, y))]

\* faulty variant of PinchRatio: the start distance over the current one
PinchRatioInverted(dollyEnd, dollyStart) == PowQ(<<dollyStart.y, dollyEnd.y>>, cfg.zoomSpeed)

\* lines 558: Math.pow(dollyEnd.y / dollyStart.y, zoomSpeed)
PinchRatio(dollyEnd, dollyStart) == PowQ(<<dollyEnd.y, dollyStart.y>>, cfg.zoomSpeed)

\* lines 549-561
HandleTouchMoveDolly(f, pointerId, x, y) ==
  IF f.t.threw THEN f
  ELSE IF SecondPointerThrows(f.o, pointerId) THEN Throw(f)
  ELSE LET dollyEnd == V2(0, Distance(V2(x, y), GetSecondPointerPosition(f.o, pointerId)))
           o1 == Dolly(f.o, PinchRatio(dollyEnd, f.o.dollyStart), TRUE)
       IN [f EXCEPT !.o = [o1 EXCEPT !.dollyStart = dollyEnd]]

----------------------------------------------------------------------------
(* Event handlers, lines 567-772.  An event is a record of the fields the    *)
(* handlers read; modifier is ctrlKey || metaKey || shiftKey.                *)

PointerEvent(id, p, button, modifier) ==
  [pointerId |-> id, pointerType |-> PointerType(id), pageX |-> p.x, pageY |-> p.y,
   clientX |-> p.x, clientY |-> p.y, button |-> button, modifier |-> modifier]

\* lines 656-657 and 730-731
DispatchStart(f) == IF f.o.state # "NONE" THEN DispatchEvent(f, "start") ELSE f

\* faulty variant of OnMouseDown: the modifier keys are not looked at
OnMouseDownNoModifier(f, event) ==
  LET mouseAction == CASE event.button = 0 -> cfg.mouseButtons.LEFT
                       [] event.button = 1 -> cfg.mouseButtons.MIDDLE
                       [] event.button = 2 -> cfg.mouseButtons.RIGHT
                       [] OTHER -> "NONE"
      at == V2(event.clientX, event.clientY)
  IN CASE mouseAction = "DOLLY" ->
            DispatchStart([f EXCEPT !.o.dollyStart = at, !.o.state = "DOLLY"])
       [] mouseAction = "ROTATE" ->
            DispatchStart([f EXCEPT !.o.rotateStart = at, !.o.state = "ROTATE"])
       [] mouseAction = "PAN" ->
            DispatchStart([f EXCEPT !.o.panStart = at, !.o.state = "PAN"])
       [] OTHER -> DispatchStart([f EXCEPT !.o.state = "NONE"])

\* lines 610-658
OnMouseDown(f, event) ==
  LET mouseAction == CASE event.button = 0 -> cfg.mouseButtons.LEFT
                       [] event.button = 1 -> cfg.mouseButtons.MIDDLE
                       [] event.button = 2 -> cfg.mouseButtons.RIGHT
                       [] OTHER -> "NONE"
      at == V2(event.clientX, event.clientY)
      rotate == IF ~cfg.enableRotate THEN f
                ELSE DispatchStart([f EXCEPT !.o.rotateStart = at, !.o.state = "ROTATE"])
      pan == IF ~cfg.enablePan THEN f
             ELSE DispatchStart([f EXCEPT !.o.panStart = at, !.o.state = "PAN"])
  IN CASE mouseAction = "DOLLY" ->
            IF ~cfg.enableZoom THEN f
            ELSE DispatchStart([f EXCEPT !.o.dollyStart = at, !.o.state = "DOLLY"])
       [] mouseAction = "ROTATE" -> IF event.modifier THEN pan ELSE rotate
       [] mouseAction = "PAN" -> IF event.modifier THEN rotate ELSE pan
       [] OTHER -> DispatchStart([f EXCEPT !.o.state = "NONE"])

\* lines 702-732
OnTouchStart(f, event) ==
  LET o == TrackPointer(f.o, event.pointerId, event.pageX, event.pageY)
      n == Len(o.pointers)
      g == [f EXCEPT !.o = o]
  IN CASE n = 1 /\ cfg.touches.ONE = "ROTATE" ->
            IF ~cfg.enableRotate THEN g
            ELSE DispatchStart([g EXCEPT !.o.rotateStart = TouchStartPoint(o),
                                         !.o.state = "TOUCH_ROTATE"])
       [] n = 1 /\ cfg.touches.ONE = "PAN" ->
            IF ~cfg.enablePan THEN g
            ELSE DispatchStart([g EXCEPT !.o.panStart = TouchStartPoint(o),
                                         !.o.state = "TOUCH_PAN"])
       [] n = 2 /\ cfg.touches.TWO = "DOLLY_PAN" ->
            IF ~cfg.enableZoom /\ ~cfg.enablePan THEN g
            ELSE LET o1 == IF cfg.enableZoom THEN HandleTouchStartDolly(o) ELSE o
                     o2 == IF cfg.enablePan
                           THEN [o1 EXCEPT !.panStart = TouchStartPoint(o1)] ELSE o1
                 IN DispatchStart([g EXCEPT !.o = [o2 EXCEPT !.state = "TOUCH_DOLLY_PAN"]])
       [] n = 2 /\ cfg.touches.TWO = "DOLLY_ROTATE" ->
            IF ~cfg.enableZoom /\ ~cfg.enableRotate THEN g
            ELSE LET o1 == IF cfg.enableZoom THEN HandleTouchStartDolly(o) ELSE o
                     o2 == IF cfg.enableRotate
                           THEN [o1 EXCEPT !.rotateStart = TouchStartPoint(o1)] ELSE o1
                 IN DispatchStart([g EXCEPT !.o = [o2 EXCEPT !.state = "TOUCH_DOLLY_ROTATE"]])
       [] OTHER -> DispatchStart([g EXCEPT !.o.state = "NONE"])

\* lines 567-580
OnPointerDown(f, event) ==
  IF ~cfg.enabled THEN f
  ELSE LET f1 == IF Len(f.o.pointers) = 0
                 THEN [f EXCEPT !.c = @ \cup {event.pointerId},
                                !.l = @ \cup {<<"canvas", "pointermove">>,
                                              <<"canvas", "pointerup">>}]
                 ELSE f
           f2 == [f1 EXCEPT !.o.pointers =
                    Append(@, [pointerId |-> event.pointerId,
                               pageX |-> event.pageX, pageY |-> event.pageY])]
       IN IF event.pointerType = "touch" THEN OnTouchStart(f2, event)
          ELSE OnMouseDown(f2, event)

\* faulty variant of OnMouseMove: the enable flags are not consulted
OnMouseMoveUnchecked(f, x, y) ==
  CASE f.o.state = "ROTATE" ->
         CallUpdate([f EXCEPT !.o = HandleMouseMoveRotate(f.o, x, y)])
    [] f.o.state = "DOLLY" ->
         CallUpdate([f EXCEPT !.o = HandleMouseMoveDolly(f.o, x, y)])
    [] f.o.state = "PAN" ->
         CallUpdate([f EXCEPT !.o = HandleMouseMovePan(f.o, x, y)])
    [] OTHER -> f

\* lines 660-680
OnMouseMove(f, x, y) ==
  CASE f.o.state = "ROTATE" ->
         IF ~cfg.enableRotate THEN f
         ELSE CallUpdate([f EXCEPT !.o = HandleMouseMoveRotate(f.o, x, y)])
    [] f.o.state = "DOLLY" ->
         IF ~cfg.enableZoom THEN f
         ELSE CallUpdate([f EXCEPT !.o = HandleMouseMoveDolly(f.o, x, y)])
    [] f.o.state = "PAN" ->
         IF ~cfg.enablePan THEN f
         ELSE CallUpdate([f EXCEPT !.o = HandleMouseMovePan(f.o, x, y)])
    [] OTHER -> f

\* the update() that ends a touch move, unless the move raised
ThenUpdate(f) == IF f.t.threw THEN f ELSE CallUpdate(f)

\* lines 734-767
OnTouchMove(f, pointerId, x, y) ==
  LET g == [f EXCEPT !.o = TrackPointer(f.o, pointerId, x, y)] IN
  CASE g.o.state = "TOUCH_ROTATE" ->
         IF ~cfg.enableRotate THEN g
         ELSE ThenUpdate(HandleTouchMoveRotate(g, pointerId, x, y))
    [] g.o.state = "TOUCH_PAN" ->
         IF ~cfg.enablePan THEN g
         ELSE ThenUpdate(HandleTouchMovePan(g, pointerId, x, y))
    [] g.o.state = "TOUCH_DOLLY_PAN" ->
         IF ~cfg.enableZoom /\ ~cfg.enablePan THEN g
         ELSE LET g1 == IF cfg.enableZoom THEN HandleTouchMoveDolly(g, pointerId, x, y) ELSE g
                  g2 == IF cfg.enablePan THEN HandleTouchMovePan(g1, pointerId, x, y) ELSE g1
              IN ThenUpdate(g2)
    [] g.o.state = "TOUCH_DOLLY_ROTATE" ->
         IF ~cfg.enableZoom /\ ~cfg.enableRotate THEN g
         ELSE LET g1 == IF cfg.enableZoom THEN HandleTouchMoveDolly(g, pointerId, x, y) ELSE g
                  g2 == IF cfg.enableRotate THEN HandleTouchMoveRotate(g1, pointerId, x, y) ELSE g1
              IN ThenUpdate(g2)
    [] OTHER -> [g EXCEPT !.o.state = "NONE"]

\* lines 582-589
OnPointerMove(f, event) ==
  IF ~cfg.enabled THEN f
  ELSE IF event.pointerType = "touch"
       THEN OnTouchMove(f, event.pointerId, event.pageX, event.pageY)
       ELSE OnMouseMove(f, event.clientX, event.clientY)

\* faulty variant of OnPointerUp: the mode is left as it was
OnPointerUpKeepsMode(f, event) ==
  IF ~cfg.enabled THEN f
  ELSE LET f1 == DispatchEvent(f, "end")
           f2 == [f1 EXCEPT !.o = RemovePointer(f1.o, event.pointerId)]
       IN IF Len(f2.o.pointers) > 0 THEN f2
          ELSE [f2 EXCEPT !.c = @ \ {event.pointerId},
                          !.t.released = Append(@, event.pointerId),
                          !.l = @ \ {<<"canvas", "pointermove">>, <<"canvas", "pointerup">>}]

\* lines 591-604
OnPointerUp(f, event) ==
  IF ~cfg.enabled THEN f
  ELSE LET f1 == DispatchEvent(f, "end")
           f2 == [f1 EXCEPT !.o = RemovePointer([f1.o EXCEPT !.state = "NONE"],
                                                event.pointerId)]
       IN IF Len(f2.o.pointers) > 0 THEN f2
          ELSE [f2 EXCEPT !.c = @ \ {event.pointerId},
                          !.t.released = Append(@, event.pointerId),
                          !.l = @ \ {<<"canvas", "pointermove">>, <<"canvas", "pointerup">>}]

\* lines 606-608
OnPointerCancel(f, event) == [f EXCEPT !.o = RemovePointer(f.o, event.pointerId)]

\* lines 448-453
HandleMouseWheel(f, deltaY) ==
  CallUpdate(IF deltaY # 0 THEN [f EXCEPT !.o = Dolly(f.o, GetZoomScale, deltaY > 0)] ELSE f)

\* faulty variant of OnMouseWheel: the wheel is accepted in every mode
OnMouseWheelAnyMode(f, deltaY) ==
  IF ~cfg.enabled \/ ~cfg.enableZoom THEN f
  ELSE DispatchEvent(HandleMouseWheel(DispatchEvent(PreventDefault(f), "start"), deltaY),
                     "end")

\* lines 682-695
OnMouseWheel(f, deltaY) ==
  IF ~cfg.enabled \/ ~cfg.enableZoom \/ (f.o.state # "NONE" /\ f.o.state # "ROTATE") THEN f
  ELSE DispatchEvent(HandleMouseWheel(DispatchEvent(PreventDefault(f), "start"), deltaY),
                     "end")

\* faulty variant of HandleKeyDown: the LEFT and RIGHT keys are exchanged
HandleKeyDownMirrored(f, code) ==
  LET step(dx, dy) == PreventDefault([f EXCEPT !.o = Pan(f.o, dx, dy)]) IN
  CASE code = cfg.keys.UP -> CallUpdate(step(0, cfg.keyPanSpeed))
    [] code = cfg.keys.BOTTOM -> CallUpdate(step(0, 0 - cfg.keyPanSpeed))
    [] code = cfg.keys.RIGHT -> CallUpdate(step(cfg.keyPanSpeed, 0))
    [] code = cfg.keys.LEFT -> CallUpdate(step(0 - cfg.keyPanSpeed, 0))
    [] OTHER -> f

\* lines 455-485
HandleKeyDown(f, code) ==
  LET step(dx, dy) == PreventDefault([f EXCEPT !.o = Pan(f.o, dx, dy)]) IN
  CASE code = cfg.keys.UP -> CallUpdate(step(0, cfg.keyPanSpeed))
    [] code = cfg.keys.BOTTOM -> CallUpdate(step(0, 0 - cfg.keyPanSpeed))
    [] code = cfg.keys.LEFT -> CallUpdate(step(cfg.keyPanSpeed, 0))
    [] code = cfg.keys.RIGHT -> CallUpdate(step(0 - cfg.keyPanSpeed, 0))
    [] OTHER -> f

\* lines 697-700
OnKeyDown(f, code) == IF ~cfg.enabled \/ ~cfg.enablePan THEN f ELSE HandleKeyDown(f, code)

\* lines 769-772
OnContextMenu(f) == IF ~cfg.enabled THEN f ELSE PreventDefault(f)

----------------------------------------------------------------------------
(* Host operations, lines 190-212 and 330-344 *)

\* lines 190-193
ListenToKeyEvents(f, domElement) ==
  [f EXCEPT !.l = @ \cup {<<domElement, "keydown">>}, !.o.domElementKeyEvents = domElement]

\* lines 195-199
SaveState(o) ==
  [o EXCEPT !.target0 = o.target, !.position0 = Position(o), !.zoom0 = o.camera.zoom]

\* lines 201-212.  position0 was copied from the camera together with target0,
\* so the restored position lies at position0.o from the restored target.
Reset(f) ==
  LET o1 == [f.o EXCEPT !.target = f.o.target0,
                        !.camera.offset = f.o.position0.o,
                        !.camera.zoom = f.o.zoom0,
                        !.camera.projectionZoom = f.o.zoom0]
      f1 == CallUpdate(DispatchEvent([f EXCEPT !.o = o1], "change"))
  IN [f1 EXCEPT !.o.state = "NONE"]

\* lines 330-344
Dispose(f) ==
  LET canvas == {<<"canvas", type>> : type \in {"contextmenu", "pointerdown", "pointercancel",
                                                "wheel", "pointermove", "pointerup"}}
      keys == IF f.o.domElementKeyEvents # "null"
              THEN {<<f.o.domElementKeyEvents, "keydown">>} ELSE {}
  IN [f EXCEPT !.l = (@ \ canvas) \ keys]

----------------------------------------------------------------------------
(* Construction, lines 36-188, and the configuration the host assigns *)

\* the field initialisers of lines 110-163
DefaultConfig ==
  [enabled |-> TRUE,
   minDistance |-> 0, maxDistance |-> Infinity,
   minZoom |-> 0, maxZoom |-> Infinity,
   minPolarAngle |-> 0, maxPolarAngle |-> PI,
   minAzimuthAngle |-> NegInfinity, maxAzimuthAngle |-> Infinity,
   enableDamping |-> FALSE, dampingFactor |-> <<1, 20>>,
   enableZoom |-> TRUE, zoomSpeed |-> 1,
   enableRotate |-> TRUE, rotateSpeed |-> 1,
   enablePan |-> TRUE, panSpeed |-> 1,
   screenSpacePanning |-> TRUE, keyPanSpeed |-> 7,
   autoRotate |-> FALSE, autoRotateSpeed |-> 2,
   keys |-> [LEFT |-> "ArrowLeft", UP |-> "ArrowUp", RIGHT |-> "ArrowRight",
             BOTTOM |-> "ArrowDown"],
   mouseButtons |-> [LEFT |-> "ROTATE", MIDDLE |-> "DOLLY", RIGHT |-> "PAN"],
   touches |-> [ONE |-> "ROTATE", TWO |-> "DOLLY_PAN"]]

\* the camera the host hands over (src/src/ThreeJsDag3dEngine.ts lines 106-121, 146-147):
\* at z = 5 on the axis through the target, looking along -z, up = +y, its
\* matrix the identity; fov 75 degrees (tan 37.5 = 0.767); frustum height 10
\* on a canvas twice as wide as high
Camera(isPerspective, offset) ==
  [isPerspective |-> isPerspective,
   offset |-> offset,
   quaternion |-> [phi |-> PI \div 2, theta |-> 0],
   zoom |-> 1000,
   \* the zoom updateProjectionMatrix() last built the projection matrix with
   projectionZoom |-> 1000,
   up |-> V3(0, 1, 0), matrixX |-> V3(1, 0, 0), matrixY |-> V3(0, 1, 0),
   tanHalfFov |-> <<767, 1000>>,
   frustumWidth |-> 20000, frustumHeight |-> 10000]

AtZ5 == Sph(5000, PI \div 2, 0)

\* the instance after the constructor, lines 36-107 and 165-188
Constructed(camera) ==
  [state |-> "NONE",
   domElementKeyEvents |-> "null",
   spherical |-> Sph(1, 0, 0),
   sphericalDelta |-> [theta |-> 0, phi |-> 0],
   scale |-> <<1, 1>>,
   panOffset |-> Zero3,
   zoomChanged |-> FALSE,
   rotateStart |-> V2(0, 0), panStart |-> V2(0, 0), dollyStart |-> V2(0, 0),
   pointers |-> <<>>,
   pointerPositions |-> <<>>,
   camera |-> camera,
   target |-> Zero3,
   target0 |-> Zero3,
   position0 |-> [t |-> Zero3, o |-> camera.offset],
   zoom0 |-> camera.zoom,
   lastPosition |-> [t |-> Zero3, o |-> Sph(0, 0, 0)],
   lastQuaternion |-> [phi |-> PI \div 2, theta |-> 0]]

\* lines 184-187
ConstructedListeners ==
  {<<"canvas", type>> : type \in {"contextmenu", "pointerdown", "pointercancel", "wheel"}}

\* a second instance as its constructor leaves it, with its canvas's
\* registrations and captures, the pointers down on its canvas and the trace
\* of its last handler
Instance(o, l, c, h, t) == [oc |-> o, listeners |-> l, capture |-> c, held |-> h, last |-> t]

ConstructedPeer(camera) ==
  Instance(Constructed(camera), ConstructedListeners, {}, {},
           Frame(Constructed(camera), ConstructedListeners, {}, "constructor").t)

\* a host that has added no listener for "start" and "end" (dispatchEvent then
\* calls nothing), and one that has and counts the gestures under way
NotListening == [listening |-> FALSE, open |-> 0]
Listening == [listening |-> TRUE, open |-> 0]

\* the host's count after the notifications of one handler, in their order:
\* a start opens a gesture, an end closes one
RECURSIVE Tally(_, _)
Tally(open, events) ==
  IF events = <<>> THEN open
  ELSE Tally(CASE Head(events) = "start" -> open + 1
               [] Head(events) = "end" -> open - 1
               [] OTHER -> open,
             Tail(events))

Notified(h, events) ==
  IF h.listening THEN [h EXCEPT !.open = Tally(@, events)] ELSE h

InitWith(config, camera, devs, n) ==
  /\ oc = Constructed(camera)
  /\ cfg = config
  /\ listeners = ConstructedListeners
  /\ capture = {}
  /\ held = {}
  /\ devices = devs
  /\ last = Frame(oc, listeners, capture, "constructor").t
  /\ budget = n
  /\ peer = ConstructedPeer(camera)
  /\ host = NotListening

----------------------------------------------------------------------------
(* Actions: one per event the browser delivers and per call the host makes *)

Registered(target, type) == <<target, type>> \in listeners

\* faulty variant of Deliver: the mode is kept in a field all instances share
DeliverSharedMode(f) ==
  /\ oc' = f.o
  /\ listeners' = f.l
  /\ capture' = f.c
  /\ last' = f.t
  /\ budget' = budget - 1
  /\ peer' = [peer EXCEPT !.oc.state = f.o.state]
  /\ host' = Notified(host, f.t.events)

\* the handler's result becomes the next state of the instance it ran on:
\* handlers assign fields of `this` only (the fields of lines 52-107, 214-222)
Deliver(f) ==
  /\ oc' = f.o
  /\ listeners' = f.l
  /\ capture' = f.c
  /\ last' = f.t
  /\ budget' = budget - 1
  /\ peer' = peer
  /\ host' = Notified(host, f.t.events)

Now(op) == Frame(oc, listeners, capture, op)

Buttons == {0, 1, 2, 3}

PointerDown ==
  \E id \in devices \ held, p \in Points, button \in Buttons, modifier \in BOOLEAN :
    /\ budget > 0
    /\ Registered("canvas", "pointerdown")
    /\ PointerType(id) = "touch" => (button = 0 /\ ~modifier)
    /\ held' = held \cup {id}
    /\ Deliver(OnPointerDown(Now("pointerdown"), PointerEvent(id, p, button, modifier)))
    /\ UNCHANGED <<cfg, devices>>

\* a mouse moves whether or not a button is down; a touch contact moves while down
PointerMove ==
  \E id \in devices, p \in Points :
    /\ budget > 0
    /\ Registered("canvas", "pointermove")
    /\ PointerType(id) = "touch" => id \in held
    /\ Deliver(OnPointerMove(Now("pointermove"), PointerEvent(id, p, 0, FALSE)))
    /\ UNCHANGED <<cfg, held, devices>>

\* the browser drops a pointer's capture once its pointerup or pointercancel
\* has been dispatched
Released(f, id) == [f EXCEPT !.c = @ \ {id}]

PointerUp ==
  \E id \in held :
    /\ budget > 0
    /\ held' = held \ {id}
    /\ Deliver(Released(IF Registered("canvas", "pointerup")
                        THEN OnPointerUp(Now("pointerup"),
                                         PointerEvent(id, V2(0, 0), 0, FALSE))
                        ELSE Now("pointerup"), id))
    /\ UNCHANGED <<cfg, devices>>

PointerCancel ==
  \E id \in held :
    /\ budget > 0
    /\ held' = held \ {id}
    /\ Deliver(Released(IF Registered("canvas", "pointercancel")
                        THEN OnPointerCancel(Now("pointercancel"),
                                             PointerEvent(id, V2(0, 0), 0, FALSE))
                        ELSE Now("pointercancel"), id))
    /\ UNCHANGED <<cfg, devices>>

WheelDeltas == {0 - 100, 0, 100}

Wheel ==
  \E deltaY \in WheelDeltas :
    /\ budget > 0
    /\ Registered("canvas", "wheel")
    /\ Deliver(OnMouseWheel(Now("wheel"), deltaY))
    /\ UNCHANGED <<cfg, held, devices>>

KeyCodes == {"ArrowLeft", "ArrowUp", "ArrowRight", "ArrowDown", "KeyA"}

KeyDown ==
  \E target \in KeyTargets, code \in KeyCodes :
    /\ budget > 0
    /\ Registered(target, "keydown")
    /\ Deliver(OnKeyDown(Now("keydown"), code))
    /\ UNCHANGED <<cfg, held, devices>>

ContextMenu ==
  /\ budget > 0
  /\ Registered("canvas", "contextmenu")
  /\ Deliver(OnContextMenu(Now("contextmenu")))
  /\ UNCHANGED <<cfg, held, devices>>

\* the render loop's controls.update()
HostUpdate ==
  /\ budget > 0
  /\ Deliver(CallUpdate(Now("update")))
  /\ UNCHANGED <<cfg, held, devices>>

HostSaveState ==
  /\ budget > 0
  /\ Deliver([Now("saveState") EXCEPT !.o = SaveState(oc)])
  /\ UNCHANGED <<cfg, held, devices>>

HostReset ==
  /\ budget > 0
  /\ Deliver(Reset(Now("reset")))
  /\ UNCHANGED <<cfg, held, devices>>

HostListenToKeyEvents ==
  \E target \in KeyTargets :
    /\ budget > 0
    /\ Deliver(ListenToKeyEvents(Now("listenToKeyEvents"), target))
    /\ UNCHANGED <<cfg, held, devices>>

HostDispose ==
  /\ budget > 0
  /\ Deliver(Dispose(Now("dispose")))
  /\ UNCHANGED <<cfg, held, devices>>

\* the host assigns the public field `enabled`, line 110
HostSetEnabled ==
  /\ budget > 0
  /\ cfg' = [cfg EXCEPT !.enabled = ~@]
  /\ Deliver(Now("setEnabled"))
  /\ UNCHANGED <<held, devices>>

Next ==
  \/ PointerDown \/ PointerMove \/ PointerUp \/ PointerCancel
  \/ Wheel \/ KeyDown \/ ContextMenu
  \/ HostUpdate \/ HostSaveState \/ HostReset
  \/ HostListenToKeyEvents \/ HostDispose \/ HostSetEnabled

MaxSteps == 4

Init == InitWith(DefaultConfig, Camera(TRUE, AtZ5), MouseIds \cup TouchIds, MaxSteps)

Spec == Init /\ [][Next]_vars

----------------------------------------------------------------------------
(* Further specifications: the same actions from other configurations *)

\* pointer, wheel and frame events only: the host assigns and calls nothing else
NextInput ==
  \/ PointerDown \/ PointerMove \/ PointerUp \/ PointerCancel
  \/ Wheel \/ HostUpdate

\* polar limits 0 <= minPolarAngle <= maxPolarAngle <= PI, with and without
\* damping; a mouse and one touch contact
PolarLimits == {0, PI \div 2, PI}

InitPolar ==
  \E lo \in PolarLimits, hi \in PolarLimits, damping \in BOOLEAN :
    /\ lo <= hi
    /\ InitWith([DefaultConfig EXCEPT !.minPolarAngle = lo, !.maxPolarAngle = hi,
                                      !.enableDamping = damping],
                Camera(TRUE, AtZ5), MouseIds \cup {2}, MaxSteps)

SpecPolar == InitPolar /\ [][NextInput]_vars

\* distance limits minDistance <= maxDistance around the camera's distance of
\* 5, the defaults 0 and Infinity among them; either kind of camera; a mouse
\* and two touch contacts
DistanceLimits == {<<0, Infinity>>, <<1000, 100000>>, <<4800, 5200>>, <<5000, 5000>>}

InitDolly ==
  \E limits \in DistanceLimits, isPerspective \in BOOLEAN :
    InitWith([DefaultConfig EXCEPT !.minDistance = limits[1], !.maxDistance = limits[2]],
             Camera(isPerspective, AtZ5), MouseIds \cup {2, 3}, MaxSteps)

SpecDolly == InitDolly /\ [][NextInput]_vars

\* zoom enabled or not, the host toggling `enabled`; a mouse and two touch contacts
InitWheel ==
  \E zoom \in BOOLEAN, isPerspective \in BOOLEAN :
    InitWith([DefaultConfig EXCEPT !.enableZoom = zoom],
             Camera(isPerspective, AtZ5), MouseIds \cup {2, 3}, MaxSteps)

SpecWheel == InitWheel /\ [][NextInput \/ HostSetEnabled]_vars

\* a single touch contact, followed for more events
MaxStepsOneTouch == 6

InitOneTouch == InitWith(DefaultConfig, Camera(TRUE, AtZ5), {2}, MaxStepsOneTouch)

SpecOneTouch == InitOneTouch /\ [][Next]_vars

\* the configuration src/src/ThreeJsDag3dEngine.ts assigns (lines 153-163):
\* damping, world-space panning, distance and polar limits
EngineConfig ==
  [DefaultConfig EXCEPT !.enableDamping = TRUE, !.screenSpacePanning = FALSE,
                        !.minDistance = 1000, !.maxDistance = 100000,
                        !.maxPolarAngle = PI \div 2]

\* the engine's controller (lines 146-163): on the orthographic camera, with
\* key events listened to on window
InitEngine ==
  LET f == ListenToKeyEvents(Frame(Constructed(Camera(FALSE, AtZ5)), ConstructedListeners,
                                   {}, "constructor"), "window")
  IN /\ oc = f.o
     /\ cfg = EngineConfig
     /\ listeners = f.l
     /\ capture = f.c
     /\ held = {}
     /\ devices = MouseIds \cup {2}
     /\ last = f.t
     /\ budget = MaxSteps
     /\ peer = ConstructedPeer(Camera(FALSE, AtZ5))
     /\ host = NotListening

SpecEngine == InitEngine /\ [][Next]_vars

\* the mapping the MapControls constructor is written to assign (lines
\* 1935-1941); a subclass has it once it assigns this.mouseButtons,
\* this.touches (protected, lines 67-74) and screenSpacePanning
MapControlsConfig ==
  [DefaultConfig EXCEPT !.mouseButtons = [LEFT |-> "PAN", MIDDLE |-> "DOLLY", RIGHT |-> "ROTATE"],
                        !.touches = [ONE |-> "PAN", TWO |-> "DOLLY_ROTATE"],
                        !.screenSpacePanning = FALSE]

\* a controller with the default mapping and one with the MapControls
\* mapping, every gesture category enabled
InitMapping ==
  \E config \in {DefaultConfig, MapControlsConfig} :
    InitWith(config, Camera(TRUE, AtZ5), MouseIds \cup {2, 3}, MaxSteps)

SpecMapping == InitMapping /\ [][NextInput]_vars

\* either controller with any of the gesture categories disabled
InitDisabled ==
  \E config \in {DefaultConfig, MapControlsConfig}, rotate, pan, zoom \in BOOLEAN :
    InitWith([config EXCEPT !.enableRotate = rotate, !.enablePan = pan, !.enableZoom = zoom],
             Camera(TRUE, AtZ5), MouseIds \cup {2, 3}, MaxSteps)

SpecDisabled == InitDisabled /\ [][NextInput]_vars

\* the same two controllers over shorter runs, for the properties that look
\* one event ahead of every state
MaxStepsAhead == 3

InitAhead ==
  \E config \in {DefaultConfig, MapControlsConfig} :
    InitWith(config, Camera(TRUE, AtZ5), MouseIds \cup {2, 3}, MaxStepsAhead)

SpecAhead == InitAhead /\ [][NextInput]_vars

\* azimuth limits <<minAzimuthAngle, maxAzimuthAngle>>: a plain range, one given
\* below -PI, and two whose permitted range runs through +-PI
AzimuthLimits ==
  {<<0 - (PI \div 2), PI \div 2>>,
   <<0 - 7 * (PI \div 4), 0 - 5 * (PI \div 4)>>,
   <<3 * (PI \div 4), 0 - 3 * (PI \div 4)>>,
   <<0 - 3 * (PI \div 2), 0 - (PI \div 2)>>}

\* the azimuths the host's camera starts at
StartAzimuths == {0, 0 - 3 * (PI \div 4)}

InitAzimuth ==
  \E limits \in AzimuthLimits, theta \in StartAzimuths :
    InitWith([DefaultConfig EXCEPT !.minAzimuthAngle = limits[1],
                                   !.maxAzimuthAngle = limits[2]],
             Camera(TRUE, Sph(5000, PI \div 2, theta)), MouseIds \cup {2}, MaxSteps)

SpecAzimuth == InitAzimuth /\ [][NextInput]_vars

\* a pointer move one canvas height to the right of where the last rotate
\* move ended, still over the canvas
PointerMoveAcross ==
  \E id \in devices :
    LET p == V2(oc.rotateStart.x + ClientHeight, oc.rotateStart.y) IN
    /\ budget > 0
    /\ p.x <= ClientWidth
    /\ Registered("canvas", "pointermove")
    /\ PointerType(id) = "touch" => id \in held
    /\ Deliver(OnPointerMove(Now("pointermove"), PointerEvent(id, p, 0, FALSE)))
    /\ UNCHANGED <<cfg, held, devices>>

\* rotate drags with and without damping; a mouse and one touch contact
InitRotate ==
  \E damping \in BOOLEAN :
    InitWith([DefaultConfig EXCEPT !.enableDamping = damping],
             Camera(TRUE, AtZ5), MouseIds \cup {2}, MaxSteps)

SpecRotate == InitRotate /\ [][NextInput \/ PointerMoveAcross]_vars

\* pinches: two touch contacts on either kind of camera, with the default
\* distance limits and with limits close around the camera's distance
InitPinch ==
  \E limits \in {<<0, Infinity>>, <<4800, 5200>>}, isPerspective \in BOOLEAN :
    InitWith([DefaultConfig EXCEPT !.minDistance = limits[1], !.maxDistance = limits[2]],
             Camera(isPerspective, AtZ5), {2, 3}, MaxSteps)

SpecPinch == InitPinch /\ [][NextInput]_vars

\* the number of events followed from a key-listening controller
MaxStepsKeys == 3

\* key events listened to on window; panning enabled or not, in screen space
\* or not, with and without damping, on either kind of camera; a mouse
InitKeys ==
  \E pan \in BOOLEAN, screenSpace \in BOOLEAN, damping \in BOOLEAN, isPerspective \in BOOLEAN :
    LET f == ListenToKeyEvents(Frame(Constructed(Camera(isPerspective, AtZ5)),
                                     ConstructedListeners, {}, "constructor"), "window")
    IN /\ oc = f.o
       /\ cfg = [DefaultConfig EXCEPT !.enablePan = pan, !.screenSpacePanning = screenSpace,
                                      !.enableDamping = damping]
       /\ listeners = f.l
       /\ capture = f.c
       /\ held = {}
       /\ devices = MouseIds
       /\ last = f.t
       /\ budget = MaxStepsKeys
       /\ peer = ConstructedPeer(Camera(isPerspective, AtZ5))
       /\ host = NotListening

SpecKeys == InitKeys /\ [][NextInput \/ KeyDown]_vars

\* auto-rotation on or off at the default speed and at twice that, with and
\* without damping; a mouse and one touch contact
InitAuto ==
  \E auto \in BOOLEAN, speed \in {2, 4}, damping \in BOOLEAN :
    InitWith([DefaultConfig EXCEPT !.autoRotate = auto, !.autoRotateSpeed = speed,
                                   !.enableDamping = damping],
             Camera(TRUE, AtZ5), MouseIds \cup {2}, MaxSteps)

SpecAuto == InitAuto /\ [][NextInput]_vars

\* the pointers that exist where two canvases share the page
PairDevices == MouseIds \cup {2}

\* the events that follow go to the other canvas and the calls to its
\* controller; a pointer that is down on one canvas cannot go down on the other
AttendOther ==
  /\ oc' = peer.oc
  /\ listeners' = peer.listeners
  /\ capture' = peer.capture
  /\ held' = peer.held
  /\ last' = peer.last
  /\ peer' = Instance(oc, listeners, capture, held, last)
  /\ devices' = PairDevices \ held
  /\ UNCHANGED <<cfg, budget, host>>

\* two controllers with the default configuration, with and without damping
InitPair ==
  \E damping \in BOOLEAN :
    InitWith([DefaultConfig EXCEPT !.enableDamping = damping],
             Camera(TRUE, AtZ5), PairDevices, MaxSteps)

SpecPair == InitPair /\ [][NextInput \/ AttendOther]_vars

\* the orthographic camera with the default zoom limits and with limits close
\* around its zoom of 1; a mouse and two touch contacts
ZoomLimits == {<<0, Infinity>>, <<900, 1100>>}

InitZoom ==
  \E limits \in ZoomLimits :
    InitWith([DefaultConfig EXCEPT !.minZoom = limits[1], !.maxZoom = limits[2]],
             Camera(FALSE, AtZ5), MouseIds \cup {2, 3}, MaxSteps)

SpecZoom == InitZoom /\ [][NextInput]_vars

\* the host assigns one of the public fields enableRotate, enableZoom,
\* enablePan (lines 145-154), also while a gesture is under way
HostSetCategory ==
  \E category \in {"enableRotate", "enableZoom", "enablePan"} :
    /\ budget > 0
    /\ cfg' = [cfg EXCEPT ![category] = ~@]
    /\ Deliver(Now("setCategory"))
    /\ UNCHANGED <<held, devices>>

MaxStepsToggle == 4

\* any combination of the three flags at the start; a mouse and two touch
\* contacts
InitToggle ==
  \E rotate \in BOOLEAN, zoom \in BOOLEAN, pan \in BOOLEAN :
    InitWith([DefaultConfig EXCEPT !.enableRotate = rotate, !.enableZoom = zoom,
                                   !.enablePan = pan],
             Camera(TRUE, AtZ5), MouseIds \cup {2, 3}, MaxStepsToggle)

SpecToggle == InitToggle /\ [][NextInput \/ HostSetCategory]_vars

\* places the host puts the camera at, given from the target: distance 7 up
\* and to the right, distance 3 level and to the left
HostPositions == {Sph(7000, PI \div 4, PI \div 2), Sph(3000, PI \div 2, 0 - (PI \div 2))}

\* the host assigns camera.position between frames (the camera is the host's
\* object, line 109)
HostMoveCamera ==
  \E position \in HostPositions :
    /\ budget > 0
    /\ Deliver([Now("moveCamera") EXCEPT !.o.camera.offset = position])
    /\ UNCHANGED <<cfg, held, devices>>

\* the default distance limits and limits that exclude the far host position;
\* a mouse and one touch contact
MoveLimits == {<<0, Infinity>>, <<1000, 6000>>}

InitMove ==
  \E limits \in MoveLimits :
    InitWith([DefaultConfig EXCEPT !.minDistance = limits[1], !.maxDistance = limits[2]],
             Camera(TRUE, AtZ5), MouseIds \cup {2}, MaxSteps)

SpecMove == InitMove /\ [][NextInput \/ HostMoveCamera]_vars

\* what `super.<name>` evaluates to in a constructor: the property of that name
\* on the base class's prototype. mouseButtons is a class field (line 863), an
\* own property of the instance, so the prototype has none.
SuperProperty(name) == IF name \in {"mouseButtons", "touches"} THEN "undefined" ELSE "method"

\* new MapControls(camera, canvas), lines 1929-1942: the base constructor runs
\* to its end, then the assignment to super.mouseButtons.LEFT raises a
\* TypeError when super.mouseButtons is undefined, before any mapping or
\* screenSpacePanning is assigned
NewMapControls(camera) ==
  LET base == Frame(Constructed(camera), ConstructedListeners, {}, "constructor")
  IN IF SuperProperty("mouseButtons") = "undefined"
     THEN [f |-> Throw(base), config |-> DefaultConfig]
     ELSE [f |-> base, config |-> MapControlsConfig]

\* the controller that new MapControls leaves listening on the canvas; a
\* mouse and two touch contacts
InitMap ==
  LET made == NewMapControls(Camera(TRUE, AtZ5))
  IN /\ oc = made.f.o
     /\ cfg = made.config
     /\ listeners = made.f.l
     /\ capture = made.f.c
     /\ held = {}
     /\ devices = MouseIds \cup {2, 3}
     /\ last = made.f.t
     /\ budget = MaxSteps
     /\ peer = ConstructedPeer(Camera(TRUE, AtZ5))
     /\ host = NotListening

SpecMap == InitMap /\ [][NextInput]_vars

\* the default controller with a host that listens for start and end; a mouse
\* and two touch contacts
InitEvents ==
  /\ oc = Constructed(Camera(TRUE, AtZ5))
  /\ cfg = DefaultConfig
  /\ listeners = ConstructedListeners
  /\ capture = {}
  /\ held = {}
  /\ devices = MouseIds \cup {2, 3}
  /\ last = Frame(oc, listeners, capture, "constructor").t
  /\ budget = MaxSteps
  /\ peer = ConstructedPeer(Camera(TRUE, AtZ5))
  /\ host = Listening

SpecEvents == InitEvents /\ [][NextInput]_vars

----------------------------------------------------------------------------
(* Claims *)

\* a < b on doubles: false when either is NaN
Less(a, b) == a # NaN /\ b # NaN /\ a < b

TwoFingerModes == {"TOUCH_DOLLY_PAN", "TOUCH_DOLLY_ROTATE"}

\* C1 (as stated): after an update() the polar angle the controller holds lies
\* within [max(minPolarAngle, EPS), min(maxPolarAngle, PI - EPS)].
C1_PolarWithinStatedRange ==
  last.updates > 0 =>
    /\ Max(cfg.minPolarAngle, EPS) <= oc.spherical.phi
    /\ oc.spherical.phi <= Min(cfg.maxPolarAngle, PI - EPS)

\* C1 (amended): after an update() the polar angle lies within [EPS, PI - EPS]
\* and within the configured limits once these are themselves brought into
\* [EPS, PI - EPS]: a limit nearer than EPS to a pole gives way to the safing.
C1_PolarWithinSafedRange ==
  last.updates > 0 =>
    /\ Max(Min(cfg.minPolarAngle, PI - EPS), EPS) <= oc.spherical.phi
    /\ oc.spherical.phi <= Min(Max(cfg.maxPolarAngle, EPS), PI - EPS)

\* C1 witness: a rotate drag asked for a polar angle beyond the pole and
\* update() held it at EPS
C1_Witness ==
  /\ last.op = "pointermove" /\ last.updates > 0
  /\ oc.state \in {"ROTATE", "TOUCH_ROTATE"}
  /\ cfg.minPolarAngle = 0 /\ cfg.maxPolarAngle = PI
  /\ oc.spherical.phi = EPS

\* C2: after an update() the radius is neither less than minDistance nor
\* greater than maxDistance, whatever dolly gestures came before.
C2_RadiusWithinDistanceLimits ==
  last.updates > 0 =>
    /\ ~Less(oc.spherical.radius, cfg.minDistance)
    /\ ~Less(cfg.maxDistance, oc.spherical.radius)

\* C2 witness: a wheel notch towards the target was stopped at minDistance
C2_Witness ==
  /\ last.op = "wheel" /\ last.updates > 0
  /\ oc.camera.isPerspective
  /\ cfg.minDistance = 4800
  /\ oc.spherical.radius = cfg.minDistance

\* C3: after a pointer-up or pointer-cancel that leaves no active pointer the
\* mode is NONE.
C3_NoPointerMeansNone ==
  (last.op \in {"pointerup", "pointercancel"} /\ Len(oc.pointers) = 0) => oc.state = "NONE"

\* every tracked pointer is a touch contact
AllTouch(pointers) ==
  \A i \in 1..Len(pointers) : PointerType(pointers[i].pointerId) = "touch"

\* the step delivers a pointermove of a touch contact
TouchMoveStep ==
  \E id \in TouchIds \cap held, p \in Points :
    LET f == OnPointerMove(Now("pointermove"), PointerEvent(id, p, 0, FALSE))
    IN oc' = f.o /\ last' = f.t

\* C4: a touch move that arrives while a two-finger mode is active and fewer
\* than two pointers are tracked does not fail.
C4_MoveWithMissingPointerDoesNotFail ==
  [][(/\ oc.state \in TwoFingerModes /\ Len(oc.pointers) < 2
      /\ AllTouch(oc.pointers) /\ TouchMoveStep)
       => ~last'.threw]_vars

\* C5: lifting one of the two touch pointers of a two-finger gesture leaves the
\* mode other than NONE.
C5_LiftOneOfTwoKeepsGesture ==
  [][(/\ oc.state \in TwoFingerModes /\ Len(oc.pointers) = 2
      /\ AllTouch(oc.pointers)
      /\ last'.op = "pointerup" /\ Len(oc'.pointers) = 1)
       => oc'.state # "NONE"]_vars

\* C6: a third touch pointer going down during a two-finger gesture leaves the
\* mode and the two participating pointers as they were.
C6_ThirdPointerIgnored ==
  [][(/\ oc.state \in TwoFingerModes /\ Len(oc.pointers) = 2
      /\ last'.op = "pointerdown" /\ Len(oc'.pointers) = 3
      /\ AllTouch(oc'.pointers))
       => (oc'.state = oc.state /\ SubSeq(oc'.pointers, 1, 2) = oc.pointers)]_vars

\* C7: no two entries of the Active Pointer Set carry the same pointer id.
C7_PointerIdsDistinct ==
  \A i, j \in 1..Len(oc.pointers) :
    i # j => oc.pointers[i].pointerId # oc.pointers[j].pointerId

\* C8: after dispose() no listener of the controller is registered anywhere.
C8_DisposeRemovesEveryListener ==
  last.op = "dispose" => listeners = {}

\* C9: after reset() target, camera position and zoom are the saved ones and
\* the mode is NONE.
C9_ResetRestoresSavedState ==
  last.op = "reset" =>
    /\ oc.target = oc.target0
    /\ Position(oc) = oc.position0
    /\ oc.camera.zoom = oc.zoom0
    /\ oc.state = "NONE"

\* C10: a wheel event changes the camera only in mode NONE or ROTATE with zoom
\* enabled and changes nothing of the controller otherwise; when accepted it
\* runs update() once inside the handler; mode and pointers stay as they were.
C10_WheelOnlyInNoneOrRotate ==
  [][last'.op = "wheel" =>
       LET allowed == cfg.enableZoom /\ oc.state \in {"NONE", "ROTATE"}
           accepted == cfg.enabled /\ allowed
       IN /\ ~accepted => (oc' = oc /\ last'.updates = 0)
          /\ (oc'.camera # oc.camera \/ oc'.spherical.radius # oc.spherical.radius) => allowed
          /\ accepted => (last'.updates = 1 /\ oc'.scale = <<1, 1>>)
          /\ oc'.state = oc.state
          /\ oc'.pointers = oc.pointers
          /\ oc'.pointerPositions = oc.pointerPositions]_vars

\* C10 witness: a wheel notch during a mouse rotate drag moved the camera
C10_Witness ==
  /\ last.op = "wheel" /\ last.updates = 1
  /\ oc.state = "ROTATE" /\ Len(oc.pointers) = 1
  /\ oc.camera.isPerspective
  /\ oc.spherical.radius = 4750

\* rotate, pan and zoom are all enabled on an enabled controller
AllEnabled == cfg.enabled /\ cfg.enableRotate /\ cfg.enablePan /\ cfg.enableZoom

\* the step delivers a pointerdown of a mouse with this button and modifier state
MouseDownStep(button, modifier) ==
  \E id \in MouseIds \ held, p \in Points :
    LET f == OnPointerDown(Now("pointerdown"), PointerEvent(id, p, button, modifier))
    IN oc' = f.o /\ last' = f.t

\* the mode the specification gives a mouse button under the default mapping
MouseModeOf(button, modifier) ==
  CASE button = 0 -> IF modifier THEN "PAN" ELSE "ROTATE"
    [] button = 1 -> "DOLLY"
    [] button = 2 -> IF modifier THEN "ROTATE" ELSE "PAN"
    [] OTHER -> "NONE"

\* C11: with every category enabled and the default button mapping, a mouse
\* pointer-down gives ROTATE for the primary button (PAN with a modifier), PAN
\* for the secondary button (ROTATE with a modifier), DOLLY for the middle
\* button and NONE for any other button.
C11_MouseButtonSelectsMode ==
  [][\A button \in Buttons, modifier \in BOOLEAN :
       (/\ AllEnabled
        /\ cfg.mouseButtons = DefaultConfig.mouseButtons
        /\ MouseDownStep(button, modifier))
         => oc'.state = MouseModeOf(button, modifier)]_vars

\* C11 witness: a mouse pointer-down under the default mapping selected PAN
C11_Witness ==
  /\ last.op = "pointerdown" /\ last.events = <<"start">>
  /\ cfg.mouseButtons = DefaultConfig.mouseButtons
  /\ Len(oc.pointers) = 1 /\ PointerType(oc.pointers[1].pointerId) = "mouse"
  /\ oc.state = "PAN"

\* the step delivers a pointerdown of a touch contact
TouchDownStep ==
  \E id \in TouchIds \ held, p \in Points :
    LET f == OnPointerDown(Now("pointerdown"), PointerEvent(id, p, 0, FALSE))
    IN oc' = f.o /\ last' = f.t

\* v is the midpoint of the tracked pointers a and b
IsMidpoint(v, a, b) == 2 * v.x = a.pageX + b.pageX /\ 2 * v.y = a.pageY + b.pageY

\* d is the distance between the tracked pointers a and b
IsDistance(d, a, b) == d >= 0 /\ Sq(d) = Sq(a.pageX - b.pageX) + Sq(a.pageY - b.pageY)

CategoryDisabled(gesture) ==
  CASE gesture = "ROTATE" -> ~cfg.enableRotate
    [] gesture = "PAN" -> ~cfg.enablePan
    [] gesture = "DOLLY" -> ~cfg.enableZoom
    [] gesture = "DOLLY_PAN" -> ~cfg.enableZoom /\ ~cfg.enablePan
    [] gesture = "DOLLY_ROTATE" -> ~cfg.enableZoom /\ ~cfg.enableRotate
    [] OTHER -> FALSE

\* the gesture a mouse button selects under the configured mapping
MouseGestureOf(button, modifier) ==
  LET mapped == CASE button = 0 -> cfg.mouseButtons.LEFT
                  [] button = 1 -> cfg.mouseButtons.MIDDLE
                  [] button = 2 -> cfg.mouseButtons.RIGHT
                  [] OTHER -> "NONE"
  IN CASE mapped = "ROTATE" /\ modifier -> "PAN"
       [] mapped = "PAN" /\ modifier -> "ROTATE"
       [] OTHER -> mapped

\* the gesture a touch selects when it becomes the n-th tracked pointer
TouchGestureOf(n) ==
  CASE n = 1 -> cfg.touches.ONE
    [] n = 2 -> cfg.touches.TWO
    [] OTHER -> "NONE"

\* C13: a pointer-down that selects a gesture whose category is disabled
\* leaves the mode NONE, whatever the mode was before.
C13_DisabledCategoryGivesNone ==
  [][(/\ cfg.enabled
      /\ \/ \E button \in Buttons, modifier \in BOOLEAN :
              MouseDownStep(button, modifier) /\ CategoryDisabled(MouseGestureOf(button, modifier))
         \/ TouchDownStep /\ CategoryDisabled(TouchGestureOf(Len(oc.pointers) + 1)))
       => oc'.state = "NONE"]_vars

\* the eight modes of STATE, lines 36-45
Modes ==
  {"NONE", "ROTATE", "DOLLY", "PAN",
   "TOUCH_ROTATE", "TOUCH_PAN", "TOUCH_DOLLY_PAN", "TOUCH_DOLLY_ROTATE"}

\* C14: the mode is always one of the eight values and changes only in a step
\* that handles a pointer-down, pointer-up or pointer-cancel event.
C14_ModeChangesOnlyOnDownUpCancel ==
  [][/\ oc'.state \in Modes
     /\ last'.op \notin {"pointerdown", "pointerup", "pointercancel"}
          => oc'.state = oc.state]_vars

\* the modes the configured touch mapping gives one and two pointers
OneFingerMode == IF cfg.touches.ONE = "PAN" THEN "TOUCH_PAN" ELSE "TOUCH_ROTATE"
TwoFingerMode ==
  IF cfg.touches.TWO = "DOLLY_ROTATE" THEN "TOUCH_DOLLY_ROTATE" ELSE "TOUCH_DOLLY_PAN"

\* one pointer-down, or one pointer-up, that ends in this mode
DownTo(mode) == PointerDown /\ oc'.state = mode
UpTo(mode) == PointerUp /\ oc'.state = mode

DecayedOnce(after, before) ==
  LET d == cfg.dampingFactor
  IN Abs(d[2] * after - (d[2] - d[1]) * before) < d[2]

\* C16: with damping enabled and auto-rotate off, an update() with no input
\* leaves (1 - dampingFactor) times the pending rotation delta it found, so k
\* such calls leave (1 - dampingFactor)^k of it, 0.95 after one call for
\* dampingFactor 0.05, and a delta above the resolution never becomes zero in
\* one call.
C16_DampingDecaysPendingDelta ==
  [][(last'.op = "update" /\ cfg.enableDamping /\ ~cfg.autoRotate) =>
       /\ DecayedOnce(oc'.sphericalDelta.theta, oc.sphericalDelta.theta)
       /\ DecayedOnce(oc'.sphericalDelta.phi, oc.sphericalDelta.phi)
       /\ Abs(oc.sphericalDelta.phi) >= cfg.dampingFactor[2] => oc'.sphericalDelta.phi # 0
       /\ Abs(oc.sphericalDelta.theta) >= cfg.dampingFactor[2] => oc'.sphericalDelta.theta # 0]_vars

\* C16 witness: a drag asked for a polar rotation of -PI; the update() inside
\* the move handler left 0.95 of it and one more update() 0.95 of that
C16_Witness ==
  /\ last.op = "update" /\ cfg.enableDamping /\ cfg.dampingFactor = <<1, 20>>
  /\ oc.sphericalDelta.theta = 0
  /\ oc.sphericalDelta.phi = TimesRat(TimesRat(0 - PI, <<19, 20>>), <<19, 20>>)

FiniteAzimuthLimits == IsFinite(cfg.minAzimuthAngle) /\ IsFinite(cfg.maxAzimuthAngle)

\* C18: when both azimuth bounds are finite and the normalised minimum is not
\* above the normalised maximum, the azimuth after an update() lies between
\* them; with bounds -PI/2 and PI/2 a rotation that would pass PI/2 stops at
\* PI/2 and one that would pass -PI/2 stops at -PI/2.
C18_AzimuthWithinLimits ==
  LET min == NormalizeBound(cfg.minAzimuthAngle)
      max == NormalizeBound(cfg.maxAzimuthAngle)
  IN (last.updates > 0 /\ FiniteAzimuthLimits /\ min <= max) =>
       (min <= oc.spherical.theta /\ oc.spherical.theta <= max)

\* C18 witness: with bounds -PI/2 and PI/2 a drag that asked for more ended at PI/2
C18_Witness ==
  /\ last.op = "pointermove" /\ last.updates > 0 /\ oc.state = "ROTATE"
  /\ cfg.minAzimuthAngle = 0 - (PI \div 2) /\ cfg.maxAzimuthAngle = PI \div 2
  /\ oc.spherical.theta = PI \div 2

\* the azimuth `theta` lies in the permitted range of wrapping limits min > max
Permitted(theta, min, max) == Wrap(theta) >= min \/ Wrap(theta) <= max

\* C19: when both azimuth bounds are finite and the normalised minimum is above
\* the normalised maximum, update() leaves an azimuth of the permitted range
\* alone and moves one of the excluded gap to a bound, so the azimuth after an
\* update() is never inside the gap.
C19_WrappingAzimuthLeavesGap ==
  LET min == NormalizeBound(cfg.minAzimuthAngle)
      max == NormalizeBound(cfg.maxAzimuthAngle)
  IN (last.updates > 0 /\ FiniteAzimuthLimits /\ min > max) =>
       Permitted(oc.spherical.theta, min, max)

\* an update() call by the host that follows a call of update() with no event between
RepeatedUpdate == last.updates > 0 /\ last'.op = "update"

\* the call left the camera position and the target as they were and returned false
LeftUnchanged == Position(oc') = Position(oc) /\ ~last'.changed

\* C17: with damping disabled and no new input events, every update() after
\* the first leaves the camera position and the target exactly as they were
\* and returns false.
C17_RepeatedUpdateChangesNothing ==
  [][(RepeatedUpdate /\ ~cfg.enableDamping) => LeftUnchanged]_vars

\* C20: in ROTATE and TOUCH_ROTATE mode with rotateSpeed 1, a pointer move of
\* one canvas height to the right and 0 down changes the pending azimuth delta
\* by exactly -2*PI and the pending polar delta by 0, and the update() of the
\* move handler starts from those deltas.
C20_FullHeightDragIsOneTurn ==
  [][(/\ oc.state \in {"ROTATE", "TOUCH_ROTATE"} /\ Len(oc.pointers) = 1
      /\ cfg.rotateSpeed = 1
      /\ last'.op = "pointermove" /\ last'.updates = 1
      /\ oc'.rotateStart = V2(oc.rotateStart.x + ClientHeight, oc.rotateStart.y))
       => LET moved == Rotate(oc, oc'.rotateStart) IN
          /\ moved.sphericalDelta.theta = oc.sphericalDelta.theta - TWO_PI
          /\ moved.sphericalDelta.phi = oc.sphericalDelta.phi
          /\ oc'.spherical = Update(moved).o.spherical
          /\ oc'.sphericalDelta = Update(moved).o.sphericalDelta]_vars

\* C20 witness: without damping a mouse drag of one canvas height to the right,
\* from azimuth 0, left the camera one full turn away, at azimuth -2*PI
C20_Witness ==
  /\ last.op = "pointermove" /\ last.updates = 1 /\ oc.state = "ROTATE"
  /\ ~cfg.enableDamping
  /\ oc.rotateStart = V2(ClientHeight, 0)
  /\ oc.spherical.theta = 0 - TWO_PI /\ oc.spherical.phi = PI \div 2

\* a touch move of a two-finger gesture that brings the two contacts from the
\* recorded pinch distance d0 = dollyStart.y to a smaller distance d1 > 0
PinchStep ==
  /\ oc.state \in TwoFingerModes /\ Len(oc.pointers) = 2 /\ AllTouch(oc.pointers)
  /\ cfg.enableZoom /\ cfg.zoomSpeed = 1
  /\ TouchMoveStep /\ ~last'.threw /\ last'.updates = 1
  /\ 0 < oc'.dollyStart.y /\ oc'.dollyStart.y < oc.dollyStart.y

KeyDownStep(code) ==
  LET f == OnKeyDown(Now("keydown"), code) IN oc' = f.o /\ last' = f.t

ArrowKeys == {cfg.keys.UP, cfg.keys.BOTTOM, cfg.keys.LEFT, cfg.keys.RIGHT}

\* the drag in pixels (right and down positive) one press of an arrow key stands for
KeyPanStep(code) ==
  CASE code = cfg.keys.UP -> V2(0, cfg.keyPanSpeed)
    [] code = cfg.keys.BOTTOM -> V2(0, 0 - cfg.keyPanSpeed)
    [] code = cfg.keys.LEFT -> V2(cfg.keyPanSpeed, 0)
    [] code = cfg.keys.RIGHT -> V2(0 - cfg.keyPanSpeed, 0)

\* the camera still looks along -z from where the host put it, so that its
\* X and Y axes are the world's
Unturned == oc.camera.quaternion = Camera(TRUE, AtZ5).quaternion

\* C22: with the controller and panning enabled, an arrow-key keydown adds one
\* pan step of keyPanSpeed pixels in the key's direction to the pending pan,
\* calls update() once and calls preventDefault; a keydown with panning
\* disabled, or of another key, leaves the pending pan, the target and the
\* camera as they were and calls neither.
C22_ArrowKeyPansOnce ==
  [][\A code \in KeyCodes :
       (last'.op = "keydown" /\ cfg.enabled /\ KeyDownStep(code)) =>
         IF cfg.enablePan /\ code \in ArrowKeys
         THEN LET step == KeyPanStep(code)
                  panned == Pan(oc, step.x, step.y)
                  added == [a \in {"x", "y", "z"} |-> panned.panOffset[a] - oc.panOffset[a]]
              IN /\ last'.updates = 1 /\ last'.prevented
                 /\ oc'.target = Update(panned).o.target
                 /\ oc'.panOffset = Update(panned).o.panOffset
                 /\ oc'.camera = Update(panned).o.camera
                 /\ Unturned =>
                      /\ code = cfg.keys.LEFT => (added.x < 0 /\ added.y = 0 /\ added.z = 0)
                      /\ code = cfg.keys.RIGHT => (added.x > 0 /\ added.y = 0 /\ added.z = 0)
                      /\ (code = cfg.keys.UP /\ cfg.screenSpacePanning)
                           => (added.y > 0 /\ added.x = 0 /\ added.z = 0)
                      /\ (code = cfg.keys.BOTTOM /\ cfg.screenSpacePanning)
                           => (added.y < 0 /\ added.x = 0 /\ added.z = 0)
                      /\ (code = cfg.keys.UP /\ ~cfg.screenSpacePanning)
                           => (added.z < 0 /\ added.x = 0 /\ added.y = 0)
                      /\ (code = cfg.keys.BOTTOM /\ ~cfg.screenSpacePanning)
                           => (added.z > 0 /\ added.x = 0 /\ added.y = 0)
         ELSE /\ last'.updates = 0 /\ ~last'.prevented
              /\ oc'.panOffset = oc.panOffset
              /\ oc'.target = oc.target
              /\ oc'.camera = oc.camera]_vars

\* C22 witness: one press of ArrowUp, panning in screen space without damping
\* on the perspective camera at distance 5, moved the target up by
\* 2 * 7 px * 5 * tan(37.5 deg) / canvas height
C22_Witness ==
  /\ last.op = "keydown" /\ last.updates = 1 /\ last.prevented
  /\ cfg.enablePan /\ cfg.screenSpacePanning /\ ~cfg.enableDamping
  /\ oc.camera.isPerspective
  /\ oc.panOffset = Zero3
  /\ oc.target = V3(0, TimesRat(Div(2 * 7 * 5000, ClientHeight), <<767, 1000>>), 0)

\* C23: in every state reached after an update() the spherical radius is
\* strictly greater than 0: the camera never coincides with the target.
C23_RadiusPositive ==
  last.updates > 0 => Less(0, oc.spherical.radius)

\* the step calls update() once, right after an earlier call of update()
UpdateAfterUpdate == last.updates > 0 /\ last'.updates = 1

\* C24 (as stated): update() returns true exactly when the camera position or
\* orientation after it differs by more than the threshold from what it was at
\* the previous update() call.
C24_TrueIffMovedSincePreviousCall ==
  [][UpdateAfterUpdate =>
       (last'.changed <=> \/ MovedBeyondEps(Position(oc), Position(oc'))
                          \/ TurnedBeyondEps(oc.camera.quaternion, oc'.camera.quaternion))]_vars

\* C24 (amended): update() returns true exactly when the orthographic zoom was
\* set by a dolly since the last update() that returned true, or the camera
\* position or orientation after it differs by more than the threshold from
\* those recorded by the last update() that returned true (the origin and the
\* initial orientation before any did); it then records the new ones, and
\* otherwise leaves the record as it was.
C24_TrueIffChangedSinceRecorded ==
  [][last'.updates = 1 =>
       LET moved == \/ MovedBeyondEps(oc.lastPosition, Position(oc'))
                    \/ TurnedBeyondEps(oc.lastQuaternion, oc'.camera.quaternion)
       IN /\ last'.op = "update" => (last'.changed <=> (oc.zoomChanged \/ moved))
          /\ (moved \/ oc.zoomChanged) => last'.changed
          /\ (last'.op \in {"wheel", "pointermove"} /\ oc'.camera.zoom # oc.camera.zoom)
               => last'.changed
          /\ (oc.camera.isPerspective /\ ~oc.zoomChanged /\ ~moved) => ~last'.changed
          /\ IF last'.changed
             THEN /\ oc'.lastPosition = Position(oc')
                  /\ oc'.lastQuaternion = oc'.camera.quaternion
                  /\ ~oc'.zoomChanged
             ELSE /\ oc'.lastPosition = oc.lastPosition
                  /\ oc'.lastQuaternion = oc.lastQuaternion]_vars

\* C24 witness: a wheel notch on the orthographic camera after an earlier
\* update(): the camera is where the record says and update() returned true
C24_Witness ==
  /\ last.op = "wheel" /\ last.updates = 1 /\ last.changed
  /\ ~oc.camera.isPerspective /\ oc.camera.zoom # 1000
  /\ Position(oc) = [t |-> Zero3, o |-> AtZ5]
  /\ oc.lastPosition = Position(oc)
  /\ budget = MaxSteps - 2

\* the step is an update() by the host or a wheel event that update() ends:
\* neither touches the pending rotation before update() reads it
BareUpdateStep == last'.op \in {"update", "wheel"} /\ last'.updates = 1

\* update() applied `delta` as the pending azimuth delta: the azimuth moved by
\* it (by dampingFactor times it with damping) and the rest stays pending
AppliedAzimuthDelta(delta) ==
  /\ oc'.spherical.theta = RestrictTheta(oc.camera.offset.theta + TimesRat(delta, DampFactor))
  /\ oc'.sphericalDelta.theta = (IF cfg.enableDamping THEN TimesRat(delta, DampRest) ELSE 0)

\* C25 (as stated): in an update() with autoRotate enabled and mode NONE the
\* pending azimuth delta has (2*PI / 3600) * autoRotateSpeed added to it before
\* it is applied; otherwise nothing is added.
C25_AutoRotateAddsAngle ==
  [][BareUpdateStep =>
       AppliedAzimuthDelta(oc.sphericalDelta.theta
                           + (IF cfg.autoRotate /\ oc.state = "NONE"
                              THEN Div(TWO_PI * cfg.autoRotateSpeed, 3600) ELSE 0))]_vars

\* C25 (amended): in an update() with autoRotate enabled and mode NONE the
\* pending azimuth delta has (2*PI / 3600) * autoRotateSpeed subtracted from it
\* before it is applied; with autoRotate disabled or another mode nothing is
\* added or subtracted.
C25_AutoRotateSubtractsAngle ==
  [][BareUpdateStep =>
       AppliedAzimuthDelta(oc.sphericalDelta.theta
                           - (IF cfg.autoRotate /\ oc.state = "NONE"
                              THEN Div(TWO_PI * cfg.autoRotateSpeed, 3600) ELSE 0))]_vars

\* C25 witness: two update() calls in mode NONE, auto-rotating at speed 2
\* without damping, turned the camera from azimuth 0 by twice 2*PI*2/3600
C25_Witness ==
  /\ last.op = "update" /\ oc.state = "NONE"
  /\ cfg.autoRotate /\ cfg.autoRotateSpeed = 2 /\ ~cfg.enableDamping
  /\ oc.spherical.theta = 0 - 2 * Div(TWO_PI * 2, 3600)
  /\ oc.sphericalDelta.theta = 0

\* the fields of an instance the claim names: mode, Active Pointer Set, pending
\* deltas, Scale, target and camera
Named(o) ==
  [state |-> o.state, pointers |-> o.pointers, pointerPositions |-> o.pointerPositions,
   sphericalDelta |-> o.sphericalDelta, panOffset |-> o.panOffset, scale |-> o.scale,
   target |-> o.target, camera |-> o.camera]

C27_UpdateClearsPending ==
  last.updates > 0 =>
    /\ oc.scale = <<1, 1>>
    /\ ~cfg.enableDamping =>
         (oc.sphericalDelta = [theta |-> 0, phi |-> 0] /\ oc.panOffset = Zero3)

\* C27 witness: a wheel notch on the perspective camera without damping: the
\* update() that ended it applied Scale 19/20 to the distance and left Scale 1
C27_Witness ==
  /\ last.op = "wheel" /\ last.updates = 1 /\ ~cfg.enableDamping
  /\ oc.camera.isPerspective
  /\ oc.spherical.radius = Div(5000 * 19, 20)
  /\ oc.scale = <<1, 1>> /\ oc.sphericalDelta.theta = 0 /\ oc.panOffset = Zero3

\* the step delivers a wheel event with this deltaY
WheelStep(deltaY) ==
  LET f == OnMouseWheel(Now("wheel"), deltaY) IN oc' = f.o /\ last' = f.t

\* the step is a handler that called dolly(): a wheel notch, a move of the
\* mouse up or down in mode DOLLY, or a touch move of a two-finger gesture
\* with zoom enabled
DollyStep ==
  /\ last'.updates = 1
  /\ \/ last'.op = "wheel" /\ \E deltaY \in WheelDeltas \ {0} : WheelStep(deltaY)
     \/ /\ last'.op = "pointermove" /\ oc.state = "DOLLY"
        /\ oc'.dollyStart.y # oc.dollyStart.y
     \/ /\ last'.op = "pointermove" /\ oc.state \in TwoFingerModes /\ cfg.enableZoom

\* C28: on an orthographic camera every dolly (wheel, middle-button drag,
\* pinch) sets the camera zoom to a number from minZoom to maxZoom, rebuilds
\* the projection with it in the same step, does not apply a Scale to the
\* distance, and makes the update() that follows return true.
C28_OrthographicDollySetsZoom ==
  [][(~oc.camera.isPerspective /\ DollyStep) =>
       /\ oc'.camera.zoom # NaN
       /\ ~Less(oc'.camera.zoom, cfg.minZoom)
       /\ ~Less(cfg.maxZoom, oc'.camera.zoom)
       /\ oc'.camera.projectionZoom = oc'.camera.zoom
       /\ oc'.scale = oc.scale
       /\ oc'.spherical.radius = RestrictRadius(oc.camera.offset.radius)
       /\ last'.changed]_vars

\* the gesture an active mode carries out
GestureOfMode(state) ==
  CASE state \in {"ROTATE", "TOUCH_ROTATE"} -> "ROTATE"
    [] state = "DOLLY" -> "DOLLY"
    [] state \in {"PAN", "TOUCH_PAN"} -> "PAN"
    [] state = "TOUCH_DOLLY_PAN" -> "DOLLY_PAN"
    [] state = "TOUCH_DOLLY_ROTATE" -> "DOLLY_ROTATE"
    [] OTHER -> "NONE"

\* C29: a pointer move delivered while the mode is NONE, or while the mode's
\* category is disabled, leaves the pending rotation delta, the pending pan,
\* Scale, Target and the camera as they were and calls no update().
C29_IgnoredMoveChangesNothing ==
  [][(last'.op = "pointermove" /\ (oc.state = "NONE" \/ CategoryDisabled(GestureOfMode(oc.state)))) =>
       /\ oc'.sphericalDelta = oc.sphericalDelta
       /\ oc'.panOffset = oc.panOffset
       /\ oc'.scale = oc.scale
       /\ oc'.target = oc.target
       /\ oc'.camera = oc.camera
       /\ last'.updates = 0]_vars

\* C29 witness: rotation was switched off during a mouse drag that rotates,
\* and a move of that drag has been delivered
C29_Witness ==
  /\ last.op = "pointermove" /\ last.updates = 0
  /\ oc.state = "ROTATE" /\ ~cfg.enableRotate /\ cfg.enabled
  /\ Len(oc.pointers) = 1

\* C30: an update() called by the host takes radius, polar angle and azimuth
\* from where the camera is at that moment relative to Target, also when the
\* host has moved the camera since the previous update(), and not from the
\* spherical values the previous update() left.
C30_UpdateReadsLivePosition ==
  [][(last'.op = "update" /\ ~cfg.enableDamping /\ ~cfg.autoRotate) =>
       LET live == oc.camera.offset
       IN /\ oc'.spherical =
               Sph(RestrictRadius(TimesScale(live.radius, oc.scale)),
                   MakeSafe(RestrictPhi(Plus(live.phi, oc.sphericalDelta.phi))),
                   RestrictTheta(Plus(live.theta, oc.sphericalDelta.theta)))
          /\ oc'.camera.offset = SetFromSpherical(oc'.spherical)]_vars

\* C30 witness: the host put the camera at distance 7 up and to the right of
\* the target; its update() found it there and brought it in to maxDistance = 6
C30_Witness ==
  /\ last.op = "update" /\ last.changed
  /\ cfg.maxDistance = 6000
  /\ oc.spherical = Sph(6000, PI \div 4, PI \div 2)
  /\ oc.camera.offset = oc.spherical

\* two lengths that differ by no more than the last digit kept (each of the
\* two products of a damped update() is cut to that digit)
WithinOneDigit(a, b) == a - b \in {0 - 1, 0, 1}

\* the sum of Target and the pending pan is the same, up to the last digit,
\* before and after the step
PanConserved ==
  LET before == AddV3(oc.target, oc.panOffset)
      after == AddV3(oc'.target, oc'.panOffset)
  IN /\ WithinOneDigit(after.x, before.x)
     /\ WithinOneDigit(after.y, before.y)
     /\ WithinOneDigit(after.z, before.z)

\* C31: an update() without new input folds the pending pan into Target
\* without loss. Without damping Target moves by the whole pending pan and
\* none stays pending; with damping factor d Target moves by d times the
\* pending pan and (1 - d) times it stays pending; either way Target plus
\* pending pan is what it was.
C31_PanFoldedWithoutLoss ==
  [][last'.op = "update" =>
       /\ IF cfg.enableDamping
          THEN /\ oc'.target = AddV3(oc.target, ScaleV3(oc.panOffset, cfg.dampingFactor))
               /\ oc'.panOffset = ScaleV3(oc.panOffset, DampRest)
          ELSE /\ oc'.target = AddV3(oc.target, oc.panOffset)
               /\ oc'.panOffset = Zero3
       /\ PanConserved]_vars

\* C31 witness: with damping, an update() by the host has moved Target by a
\* part of a pending pan and a part is still pending
C31_Witness ==
  /\ last.op = "update" /\ cfg.enableDamping
  /\ oc.panOffset # Zero3 /\ oc.target # Zero3

\* the mode the specification gives a mouse button on the panning-oriented
\* variant
MapModeOf(button, modifier) ==
  CASE button = 0 -> IF modifier THEN "ROTATE" ELSE "PAN"
    [] button = 1 -> "DOLLY"
    [] button = 2 -> IF modifier THEN "PAN" ELSE "ROTATE"
    [] OTHER -> "NONE"

\* C32: the controller made by new MapControls pans in world space
\* (screenSpacePanning false), gives PAN for the primary button (ROTATE with a
\* modifier), ROTATE for the secondary button (PAN with a modifier), TOUCH_PAN
\* for one finger and TOUCH_DOLLY_ROTATE for two.
C32_MapControlsMapping ==
  [][/\ ~cfg.screenSpacePanning
     /\ \A button \in Buttons, modifier \in BOOLEAN :
          MouseDownStep(button, modifier) => oc'.state = MapModeOf(button, modifier)
     /\ TouchDownStep =>
          /\ Len(oc'.pointers) = 1 => oc'.state = "TOUCH_PAN"
          /\ Len(oc'.pointers) = 2 => oc'.state = "TOUCH_DOLLY_ROTATE"]_vars

\* C33: start and end notifications bracket the gestures. No end arrives that
\* a start still open does not precede, and once every pointer has been
\* lifted or cancelled every start has had its end.
C33_StartAndEndBracketGestures ==
  host.listening =>
    /\ host.open >= 0
    /\ held = {} => host.open = 0

\* C34: the pointermove and pointerup listeners are on the canvas exactly
\* when the Active Pointer Set is not empty.
C34_MoveAndUpListenedWhilePointersActive ==
  /\ Registered("canvas", "pointermove") <=> Len(oc.pointers) > 0
  /\ Registered("canvas", "pointerup") <=> Len(oc.pointers) > 0

\* the events of the devices
InputEvents == {"pointerdown", "pointermove", "pointerup", "pointercancel", "wheel", "keydown"}

\* C35: while enabled is false an input event changes neither the mode, the
\* Active Pointer Set, the tracked positions, the pending deltas, Scale nor
\* the camera; and, enabled having been switched off and on at any moments,
\* no pointer is in the Active Pointer Set after its pointer-up was delivered.
C35_DisabledIgnoresInput ==
  [][/\ (~cfg.enabled /\ last'.op \in InputEvents) =>
          /\ oc'.state = oc.state
          /\ oc'.pointers = oc.pointers
          /\ oc'.pointerPositions = oc.pointerPositions
          /\ oc'.sphericalDelta = oc.sphericalDelta
          /\ oc'.panOffset = oc.panOffset
          /\ oc'.scale = oc.scale
          /\ oc'.camera = oc.camera
     /\ \A i \in 1..Len(oc'.pointers) : oc'.pointers[i].pointerId \in held']_vars

\* the step is a touch move of a two-finger gesture that ran to its end with
\* zoom enabled, and so computed the pinch ratio dollyEnd.y / dollyStart.y
PinchRatioStep ==
  /\ last'.op = "pointermove" /\ ~last'.threw /\ last'.updates = 1
  /\ oc.state \in TwoFingerModes /\ cfg.enableZoom
  /\ TouchMoveStep

\* C36: whenever a touch move computes the pinch ratio, the pinch start
\* distance it divides by is greater than 0.
C36_PinchStartDistancePositive ==
  [][PinchRatioStep => oc.dollyStart.y > 0]_vars

\* C37: whenever a two-finger touch mode is active, the Active Pointer Set has
\* two entries at least and each of its first two has a tracked position, so
\* that the lookup of the other pointer's position returns a position for
\* either of them.
C37_FirstTwoPointersTracked ==
  oc.state \in TwoFingerModes =>
    /\ Len(oc.pointers) >= 2
    /\ \A i \in {1, 2} : oc.pointers[i].pointerId \in DOMAIN oc.pointerPositions
    /\ \A i \in {1, 2} : ~SecondPointerThrows(oc, oc.pointers[i].pointerId)

\* the step is a pointerup or pointercancel that empties the Active Pointer Set
PointersEmptied ==
  /\ last'.op \in {"pointerup", "pointercancel"}
  /\ Len(oc.pointers) > 0 /\ Len(oc'.pointers) = 0

\* C38: the pointer-down that makes the Active Pointer Set non-empty takes the
\* capture for its pointer; releasePointerCapture is called once by the
\* pointer-up or pointer-cancel that empties the set, with the id of a pointer
\* the canvas holds the capture for, and by no other step.
C38_CaptureTakenAndReleasedOnce ==
  [][/\ (last'.op = "pointerdown" /\ Len(oc.pointers) = 0 /\ Len(oc'.pointers) = 1) =>
          oc'.pointers[1].pointerId \in capture'
     /\ Len(last'.released) = (IF PointersEmptied THEN 1 ELSE 0)
     /\ \A i \in 1..Len(last'.released) : last'.released[i] \in capture]_vars

====
